---- MODULE Spec2Model ----
(***************************************************************************)
(* Model of the Cin7 order sync of dintyo/cin7helpstock: the sync passes   *)
(* (SyncManager, UnifiedCin7Client, OptimizedCin7Sync,                     *)
(* RateLimitedCin7Sync, SyncService), the SQLite store they write, the     *)
(* lock file of SyncService, the line extraction, the warehouse mappers    *)
(* and the velocity calculations.                                          *)
(*                                                                         *)
(* Python strings that the code inspects (status, location, sku, sale id,  *)
(* reference id) are sequences of one-character strings, so that upper(),  *)
(* strip(), "in" and f-string concatenation are computed as Python does.   *)
(***************************************************************************)
EXTENDS Integers, Sequences, FiniteSets, Bags, TLC

VARIABLES
    clock,        \* wall clock (datetime.now()), in ticks of TickMinutes
    orders,       \* table orders: set of rows, reference_id declared UNIQUE
    products,     \* table products: set of rows, sku declared UNIQUE
    sync_state,   \* table sync_state: sync_type -> row or NoRow
    optimized,    \* OptimizedCin7Sync instance: existing_references, sku_map
    lastPass,     \* what is observed of the latest pass
    passes,       \* number of passes still to run
    lock_file,    \* sync.lock: NoFile or [started_at, pid]
    proc,         \* SyncService processes: position in hourly_sync
    fnName,       \* pure functions: which function was applied
    fnArgs,       \* pure functions: the arguments
    fnResult,     \* pure functions: the returned value
    http          \* the environment and the HTTP client of a process

vars == <<clock, orders, products, sync_state, optimized, lastPass, passes,
          lock_file, proc, fnName, fnArgs, fnResult, http>>

syncVars == <<clock, orders, products, sync_state, optimized, lastPass,
             passes>>
lockVars == <<lock_file, proc>>
fnVars == <<fnName, fnArgs, fnResult>>
httpVars == <<http>>

(***************************************************************************)
(* Python values                                                           *)
(***************************************************************************)

\* Python None where a string is expected (a JSON null, a missing argument).
None == <<"None">>

\* Truthiness of an optional string: None and '' are falsy.
Truthy(s) == s # None /\ s # << >>

UpperChar(c) ==
    CASE c = "a" -> "A" [] c = "c" -> "C" [] c = "d" -> "D" [] c = "e" -> "E"
      [] c = "i" -> "I" [] c = "l" -> "L" [] c = "n" -> "N" [] c = "o" -> "O"
      [] c = "q" -> "Q" [] c = "v" -> "V" [] c = "w" -> "W" [] c = "s" -> "S"
      [] c = "m" -> "M" [] c = "t" -> "T"
      [] OTHER -> c

\* str.upper()
Upper(s) == [i \in 1..Len(s) |-> UpperChar(s[i])]

\* frag in s  (substring test)
Contains(s, frag) ==
    \E i \in 1..(Len(s) - Len(frag) + 1) : SubSeq(s, i, i + Len(frag) - 1) = frag

RECURSIVE LStrip(_)
LStrip(s) == IF s # << >> /\ Head(s) = " " THEN LStrip(Tail(s)) ELSE s

RECURSIVE RStrip(_)
RStrip(s) ==
    IF s # << >> /\ s[Len(s)] = " " THEN RStrip(SubSeq(s, 1, Len(s) - 1)) ELSE s

\* str.strip()
Strip(s) == RStrip(LStrip(s))

CNTVIC == <<"C", "N", "T", "V", "I", "C">>
WCLQLD == <<"W", "C", "L", "Q", "L", "D">>
VIC == <<"V", "I", "C">>
QLD == <<"Q", "L", "D">>
NSW == <<"N", "S", "W">>
MAIN == <<"M", "A", "I", "N">>

(***************************************************************************)
(* WarehouseMapper: the three mappings from a location string              *)
(***************************************************************************)

\* The mapping inlined in UnifiedCin7Client.sync_recent_orders and
\* sync_date_window: default 'NSW', overridden when the location is truthy.
MapLocationUnified(location) ==
    IF Truthy(location)
    THEN IF Contains(location, CNTVIC) \/ Contains(location, VIC) THEN "VIC"
         ELSE IF Contains(location, WCLQLD) \/ Contains(location, QLD) THEN "QLD"
         ELSE "NSW"
    ELSE "NSW"

\* Cin7StockClient._map_location_to_warehouse: Optional[str], None is "None".
MapLocationStockClient(location) ==
    IF ~Truthy(location) THEN "None"
    ELSE LET location_upper == Upper(location) IN
         IF Contains(location_upper, CNTVIC) \/ Contains(location_upper, VIC)
         THEN "VIC"
         ELSE IF Contains(location_upper, WCLQLD) \/ Contains(location_upper, QLD)
         THEN "QLD"
         ELSE IF Contains(location_upper, NSW) \/ Contains(location_upper, MAIN)
         THEN "NSW"
         ELSE "None"

\* Cin7Client._map_location_to_warehouse
MapLocationCin7Client(location_id) ==
    IF ~Truthy(location_id) THEN "UNKNOWN" ELSE "NSW"

(***************************************************************************)
(* Inputs of the mapper specification                                      *)
(***************************************************************************)

MaxLocLen == 3

LocAlphabet == {"V", "I", "C", "Q", "L", "D", "q", "X"}

RECURSIVE StringsUpTo(_, _)
StringsUpTo(alphabet, n) ==
    IF n = 0 THEN {<< >>}
    ELSE LET shorter == StringsUpTo(alphabet, n - 1) IN
         shorter \cup {Append(s, c) : s \in shorter, c \in alphabet}

\* The location strings named in the sources and the specification.
NamedLocations ==
    { None,
      <<"U", "N", "K", "N", "O", "W", "N", "-", "L", "O", "C">>,
      <<"C", "N", "T", "V", "I", "C", "-", "A", "1">>,
      <<"W", "C", "L", "Q", "L", "D", "-", "A", "1">>,
      <<"w", "c", "l", "q", "l", "d", "-", "a", "1">>,
      <<"M", "a", "i", "n", " ", "W", "a", "r", "e", "h", "o", "u", "s", "e">>,
      <<"Q", "L", "D", "/", "V", "I", "C">> }

Locations == StringsUpTo(LocAlphabet, MaxLocLen) \cup NamedLocations

WarehouseCodes == {"VIC", "QLD", "NSW"}

(***************************************************************************)
(* Cin7 payloads                                                           *)
(*   line    : [SKU, Quantity, Location, Name]                             *)
(*   detail  : [Order |-> [Lines], Fulfilments |-> seq of [Pick |-> [Lines]],*)
(*              Location]                                                  *)
(*   summary : [SaleID, OrderNumber, OrderDate, Status, created]           *)
(*   row     : [order_number, sku, quantity, warehouse, booking_date,      *)
(*              reference_id]                                              *)
(***************************************************************************)

\* f"{sale_id}:{sku}"
ReferenceId(sale_id, sku) == sale_id \o <<":">> \o sku

\* order.get('OrderDate', '').split('T')[0]; OrderDate is <<date, time>>.
DatePart(order_date) == order_date[1]

(***************************************************************************)
(* LineExtractor of UnifiedCin7Client (sync_recent_orders, sync_date_window)*)
(***************************************************************************)

PickLineOf(line) ==
    [sku |-> Strip(line.SKU), quantity |-> line.Quantity,
     location |-> line.Location, description |-> line.Name]

OrderLineOf(line) ==
    [sku |-> Strip(line.SKU), quantity |-> line.Quantity,
     location |-> None, description |-> line.Name]

\* for fulfilment in fulfilments: if pick_data.get('Lines'): append each line
RECURSIVE CollectPickLines(_)
CollectPickLines(fulfilments) ==
    IF fulfilments = << >> THEN << >>
    ELSE LET pick_data == Head(fulfilments).Pick
             these == IF pick_data.Lines # << >>
                      THEN [i \in 1..Len(pick_data.Lines) |->
                               PickLineOf(pick_data.Lines[i])]
                      ELSE << >>
         IN  these \o CollectPickLines(Tail(fulfilments))

CollectOrderLines(detail) ==
    IF detail.Order.Lines # << >>
    THEN [i \in 1..Len(detail.Order.Lines) |-> OrderLineOf(detail.Order.Lines[i])]
    ELSE << >>

\* lines_to_process = pick_lines if pick_lines else order_lines

LinesToProcessFirstFulfilment(detail) ==
    LET pick_lines == IF detail.Fulfilments = << >> THEN << >>
                      ELSE CollectPickLines(<<Head(detail.Fulfilments)>>)
    IN  IF pick_lines # << >> THEN pick_lines ELSE CollectOrderLines(detail)

LinesToProcess(detail) ==
    LET pick_lines == CollectPickLines(detail.Fulfilments)
        order_lines == CollectOrderLines(detail)
    IN  IF pick_lines # << >> THEN pick_lines ELSE order_lines

\* A line loop without the test
ValidLineAlways(line) == TRUE

\* if not sku or quantity <= 0: continue
ValidLine(line) == line.sku # << >> /\ line.quantity > 0

RowOfUnified(order, line) ==
    [order_number |-> order.OrderNumber,
     sku |-> line.sku,
     quantity |-> line.quantity,
     warehouse |-> MapLocationUnified(line.location),
     booking_date |-> DatePart(order.OrderDate),
     reference_id |-> ReferenceId(order.SaleID, line.sku)]

\* batch_data rows of one order, in line order
RECURSIVE BatchRowsUnified(_, _)
BatchRowsUnified(order, lines) ==
    IF lines = << >> THEN << >>
    ELSE LET rest == BatchRowsUnified(order, Tail(lines)) IN
         IF ValidLine(Head(lines))
         THEN <<RowOfUnified(order, Head(lines))>> \o rest
         ELSE rest

(***************************************************************************)
(* Idle values of the parts a specification does not use                   *)
(***************************************************************************)

NoRow == [present |-> FALSE]
NoFile == [exists |-> FALSE]
NoPass == [kind |-> "none"]
NoPassObserving(what) == [kind |-> "none", observe |-> what]
NoResult == [returned |-> FALSE]

FnIdle == fnName = "none" /\ fnArgs = << >> /\ fnResult = NoResult
LockIdle == lock_file = NoFile /\ proc = << >>
HttpIdle == http = << >>
SyncIdle ==
    /\ clock = 0
    /\ orders = {}
    /\ products = {}
    /\ sync_state = << >>
    /\ optimized = << >>
    /\ lastPass = NoPass
    /\ passes = 0

(***************************************************************************)
(* Specification of the warehouse mappers as pure functions                *)
(***************************************************************************)

InitMapper ==
    /\ SyncIdle /\ LockIdle /\ HttpIdle
    /\ fnName = "none"
    /\ fnArgs \in Locations
    /\ fnResult = NoResult

UnifiedMapCall ==
    /\ fnName = "none"
    /\ fnName' = "MapLocationUnified"
    /\ fnResult' = [returned |-> TRUE, value |-> MapLocationUnified(fnArgs)]
    /\ UNCHANGED <<fnArgs, syncVars, lockVars, httpVars>>

StockClientMapCall ==
    /\ fnName = "none"
    /\ fnName' = "MapLocationStockClient"
    /\ fnResult' = [returned |-> TRUE, value |-> MapLocationStockClient(fnArgs)]
    /\ UNCHANGED <<fnArgs, syncVars, lockVars, httpVars>>

Cin7ClientMapCall ==
    /\ fnName = "none"
    /\ fnName' = "MapLocationCin7Client"
    /\ fnResult' = [returned |-> TRUE, value |-> MapLocationCin7Client(fnArgs)]
    /\ UNCHANGED <<fnArgs, syncVars, lockVars, httpVars>>

NextMapper == UnifiedMapCall \/ StockClientMapCall \/ Cin7ClientMapCall

SpecMapper == InitMapper /\ [][NextMapper]_vars

\* The location is a string that holds the fragment.
HasFragment(location, frag) == Truthy(location) /\ Contains(location, frag)

\* C9: WarehouseMapper is total with one default: every location without a
\* known fragment (None and '' included) maps to NSW, one containing the
\* Victoria fragment maps to VIC, one containing the Queensland fragment (and
\* not the Victoria one, which is tested first) maps to QLD, and no mapper
\* returns any other value such as None or 'UNKNOWN'.
C9_MapperTotalWithOneDefault ==
    fnResult.returned =>
        /\ fnResult.value \in WarehouseCodes
        /\ (~HasFragment(fnArgs, VIC) /\ ~HasFragment(fnArgs, QLD))
              => fnResult.value = "NSW"
        /\ (fnName # "MapLocationCin7Client" /\ HasFragment(fnArgs, VIC))
              => fnResult.value = "VIC"
        /\ (fnName # "MapLocationCin7Client" /\ HasFragment(fnArgs, QLD)
              /\ ~HasFragment(fnArgs, VIC)) => fnResult.value = "QLD"

\* The mapper a call of the mapper specification applied.
MapperOf(name, location) ==
    CASE name = "MapLocationUnified" -> MapLocationUnified(location)
      [] name = "MapLocationStockClient" -> MapLocationStockClient(location)
      [] OTHER -> MapLocationCin7Client(location)

\* Two location strings that differ in letter case at most.
SameLetters(a, b) == a # None /\ b # None /\ Upper(a) = Upper(b)

\* C22: warehouse matching is case-insensitive: the code a mapper returns
\* for a location string is the code it returns for every string that
\* differs from it in letter case only.
C22_MatchingIgnoresCase ==
    fnResult.returned =>
        \A other \in Locations :
            SameLetters(fnArgs, other) => MapperOf(fnName, other) = fnResult.value

\* A mapper that upper-cases first mapped the lower-case 'wclqld-a1' to QLD.
C22_Witness ==
    /\ fnResult.returned
    /\ fnName = "MapLocationStockClient"
    /\ fnArgs = <<"w", "c", "l", "q", "l", "d", "-", "a", "1">>
    /\ fnResult.value = "QLD"

(***************************************************************************)
(* Specification of the line extraction as a pure function                 *)
(***************************************************************************)

MaxLines == 2
MaxFulfilments == 2

SeqsUpTo(S, n) == UNION {[1..k -> S] : k \in 0..n}

A1 == <<"A", "1">>
skuA == <<"A">>
skuB == <<"B">>
nameA == <<"a">>
nameB == <<"b">>

\* Raw pick lines: a Queensland location, and a padded sku with no location.
SamplePickLines ==
    { [SKU |-> skuA, Quantity |-> 3, Location |-> WCLQLD \o <<"-">> \o A1,
       Name |-> nameA],
      [SKU |-> <<" ">> \o skuB \o <<" ">>, Quantity |-> 1, Location |-> << >>,
       Name |-> nameB] }

\* Raw header lines: valid, blank sku, zero quantity.
SampleOrderLines ==
    { [SKU |-> skuA, Quantity |-> 3, Location |-> CNTVIC, Name |-> nameA],
      [SKU |-> <<" ">>, Quantity |-> 2, Location |-> << >>, Name |-> nameB],
      [SKU |-> skuB, Quantity |-> 0, Location |-> << >>, Name |-> nameB] }

SampleOrder ==
    [SaleID |-> <<"9">>, OrderNumber |-> <<"S", "O", "9">>,
     OrderDate |-> <<1, 0>>, Status |-> <<"O", "K">>, created |-> 0]

SampleDetails ==
    { [Order |-> [Lines |-> ls],
       Fulfilments |-> [k \in 1..Len(ps) |-> [Pick |-> [Lines |-> ps[k]]]],
       Location |-> << >>] :
         ls \in SeqsUpTo(SampleOrderLines, MaxLines),
         ps \in SeqsUpTo(SeqsUpTo(SamplePickLines, MaxLines), MaxFulfilments) }

InitExtract ==
    /\ SyncIdle /\ LockIdle /\ HttpIdle
    /\ fnName = "none"
    /\ fnArgs \in {[order |-> SampleOrder, detail |-> d] : d \in SampleDetails}
    /\ fnResult = NoResult

\* The extraction, filtering and mapping of one order in sync_recent_orders.
ExtractCall ==
    /\ fnName = "none"
    /\ fnName' = "LinesToProcess"
    /\ LET lines_to_process == LinesToProcess(fnArgs.detail) IN
       fnResult' = [returned |-> TRUE,
                    lines_to_process |-> lines_to_process,
                    rows |-> BatchRowsUnified(fnArgs.order, lines_to_process)]
    /\ UNCHANGED <<fnArgs, syncVars, lockVars, httpVars>>

NextExtract == ExtractCall

SpecExtract == InitExtract /\ [][NextExtract]_vars

PickOf(detail, k) == detail.Fulfilments[k].Pick.Lines

HasPick(detail) ==
    \E k \in 1..Len(detail.Fulfilments) : PickOf(detail, k) # << >>

\* Number of pick lines in the fulfilments before the k-th.
RECURSIVE PickOffset(_, _)
PickOffset(detail, k) ==
    IF k <= 1 THEN 0
    ELSE PickOffset(detail, k - 1) + Len(PickOf(detail, k - 1))

SameLine(line, raw, location) ==
    /\ line.sku = Strip(raw.SKU)
    /\ line.quantity = raw.Quantity
    /\ line.description = raw.Name
    /\ line.location = location

Max(a, b) == IF a >= b THEN a ELSE b
Min(a, b) == IF a <= b THEN a ELSE b
Abs(a) == IF a >= 0 THEN a ELSE -a

RECURSIVE SumQuantity(_)
SumQuantity(rows) ==
    IF rows = << >> THEN 0 ELSE Head(rows).quantity + SumQuantity(Tail(rows))

\* WHERE sku = ? AND booking_date BETWEEN ? AND ?
RECURSIVE SelectSales(_, _, _, _)
SelectSales(rows, sku, from_date, to_date) ==
    IF rows = << >> THEN << >>
    ELSE LET r == Head(rows)
             rest == SelectSales(Tail(rows), sku, from_date, to_date)
         IN  IF r.sku = sku /\ from_date <= r.booking_date /\ r.booking_date <= to_date
             THEN <<r>> \o rest
             ELSE rest

MinDate(rows) ==
    CHOOSE d \in {rows[i].booking_date : i \in 1..Len(rows)} :
        \A i \in 1..Len(rows) : d <= rows[i].booking_date

MaxDate(rows) ==
    CHOOSE d \in {rows[i].booking_date : i \in 1..Len(rows)} :
        \A i \in 1..Len(rows) : d >= rows[i].booking_date

\* round(n / d, decimals) with scale = 10^decimals, ties to even
RoundRatio(n, d, scale) ==
    LET q == (n * scale) \div d
        r == (n * scale) % d
    IN  IF 2 * r < d THEN q
        ELSE IF 2 * r > d THEN q + 1
        ELSE IF q % 2 = 0 THEN q ELSE q + 1

Hundredths == 100
Thousandths == 1000

\* rate_limited_sync.calculate_velocity with start and end given
CalculateVelocity(rows, sku, start_date, end_date) ==
    LET sales == SelectSales(rows, sku, start_date, end_date)
        total_qty == SumQuantity(sales)
    IN  IF sales = << >> \/ total_qty = 0
        THEN [has_data |-> FALSE, daily_velocity |-> 0, scale |-> 1]
        ELSE LET actual_days == (MaxDate(sales) - MinDate(sales)) + 1 IN
             [has_data |-> TRUE,
              actual_sales_days |-> actual_days,
              total_quantity_sold |-> total_qty,
              daily_velocity |-> RoundRatio(total_qty, actual_days, Hundredths),
              scale |-> Hundredths]

\* unified_stock_app.get_period_analysis: the row of one sku
GetPeriodAnalysis(rows, sku, from_date, to_date) ==
    LET sales == SelectSales(rows, sku, from_date, to_date)
        total_quantity == SumQuantity(sales)
        period_days == (to_date - from_date) + 1
    IN  IF sales = << >> \/ ~(total_quantity > 0)
        THEN [has_data |-> FALSE, daily_velocity |-> 0, scale |-> 1]
        ELSE [has_data |-> TRUE,
              total_quantity |-> total_quantity,
              first_sale |-> MinDate(sales),
              last_sale |-> MaxDate(sales),
              daily_velocity |-> RoundRatio(total_quantity, period_days, Thousandths),
              scale |-> Thousandths]

MaxSales == 3
MaxDay == 3
MaxQty == 2

SaleRows ==
    {[sku |-> skuA, booking_date |-> d, quantity |-> q] :
        d \in 1..MaxDay, q \in 1..MaxQty}

InitVelocity ==
    /\ SyncIdle /\ LockIdle /\ HttpIdle
    /\ fnName = "none"
    /\ fnArgs \in {[rows |-> rs, sku |-> skuA, from_date |-> f, to_date |-> t] :
                      rs \in SeqsUpTo(SaleRows, MaxSales),
                      f \in 1..MaxDay, t \in 1..MaxDay}
    /\ fnArgs.from_date <= fnArgs.to_date
    /\ fnResult = NoResult

CalculateVelocityCall ==
    /\ fnName = "none"
    /\ fnName' = "calculate_velocity"
    /\ fnResult' = [returned |-> TRUE,
                    value |-> CalculateVelocity(fnArgs.rows, fnArgs.sku,
                                                fnArgs.from_date, fnArgs.to_date)]
    /\ UNCHANGED <<fnArgs, syncVars, lockVars, httpVars>>

GetPeriodAnalysisCall ==
    /\ fnName = "none"
    /\ fnName' = "get_period_analysis"
    /\ fnResult' = [returned |-> TRUE,
                    value |-> GetPeriodAnalysis(fnArgs.rows, fnArgs.sku,
                                                fnArgs.from_date, fnArgs.to_date)]
    /\ UNCHANGED <<fnArgs, syncVars, lockVars, httpVars>>

NextVelocity == CalculateVelocityCall \/ GetPeriodAnalysisCall

SpecVelocity == InitVelocity /\ [][NextVelocity]_vars

\* The sales of the sku inside the query window.
WindowSales ==
    {i \in 1..Len(fnArgs.rows) :
        /\ fnArgs.rows[i].sku = fnArgs.sku
        /\ fnArgs.from_date <= fnArgs.rows[i].booking_date
        /\ fnArgs.rows[i].booking_date <= fnArgs.to_date}

\* C10: velocity is divided by the observed span. Whenever a velocity is
\* returned for sales in the window, it is the total quantity divided by
\* (last sale date - first sale date + 1), at least 1, up to the rounding of
\* the response; with all sales on one date it is the total quantity.
C10_VelocityDividedByObservedSpan ==
    (fnResult.returned /\ WindowSales # {}) =>
        LET dates == {fnArgs.rows[i].booking_date : i \in WindowSales}
            first == CHOOSE d \in dates : \A e \in dates : d <= e
            last == CHOOSE d \in dates : \A e \in dates : d >= e
            span == Max((last - first) + 1, 1)
            total == SumQuantity([i \in 1..Len(fnArgs.rows) |->
                        IF i \in WindowSales THEN fnArgs.rows[i]
                        ELSE [quantity |-> 0]])
            v == fnResult.value
        IN  /\ v.has_data
            /\ 2 * Abs(v.daily_velocity * span - total * v.scale) <= span
            /\ (first = last) => v.daily_velocity = total * v.scale

(***************************************************************************)
(* The source data at Cin7 and the two read endpoints                      *)
(***************************************************************************)

NumOrders == 5
TickMinutes == 5
MaxClock == 5

COMPLETED == <<"C", "O", "M", "P", "L", "E", "T", "E", "D">>
VOIDED == <<"V", "O", "I", "D", "E", "D">>
VOID == <<"V", "O", "I", "D">>
CANCELLED == <<"C", "A", "N", "C", "E", "L", "L", "E", "D">>
CANCELED == <<"C", "A", "N", "C", "E", "L", "E", "D">>
Voided_mixed == <<"V", "o", "i", "d", "e", "d">>

RawLine(sku, quantity, location, name) ==
    [SKU |-> sku, Quantity |-> quantity, Location |-> location, Name |-> name]

Fulfilment(lines) == [Pick |-> [Lines |-> lines]]

\* Five kinds of order: picked in Victoria; voided; cancelled; header lines
\* only, with a blank sku and a zero quantity; the same sku picked from two
\* locations in two fulfilments.
TemplateDetail(t) ==
    CASE t = 1 ->
           [Order |-> [Lines |-> <<RawLine(skuA, 2, << >>, nameA)>>],
            Fulfilments |-> <<Fulfilment(<<RawLine(skuA, 2, CNTVIC \o <<"-">> \o A1, nameA)>>)>>,
            Location |-> << >>]
      [] t = 2 ->
           [Order |-> [Lines |-> <<RawLine(skuA, 5, << >>, nameA)>>],
            Fulfilments |-> << >>,
            Location |-> << >>]
      [] t = 3 ->
           [Order |-> [Lines |-> <<RawLine(skuB, 1, << >>, nameB)>>],
            Fulfilments |-> <<Fulfilment(<<RawLine(skuB, 1, WCLQLD \o <<"-">> \o A1, nameB)>>)>>,
            Location |-> << >>]
      [] t = 4 ->
           [Order |-> [Lines |-> <<RawLine(skuB \o <<" ">>, 1, << >>, nameB),
                                   RawLine(<<" ">>, 3, << >>, nameA),
                                   RawLine(skuA, 0, << >>, nameA)>>],
            Fulfilments |-> << >>,
            Location |-> << >>]
      [] OTHER ->
           [Order |-> [Lines |-> <<RawLine(skuA, 3, << >>, nameA),
                                   RawLine(skuB, 1, << >>, << >>)>>],
            Fulfilments |-> <<Fulfilment(<<RawLine(skuA, 1, CNTVIC, nameA)>>),
                              Fulfilment(<<RawLine(skuA, 2, WCLQLD, nameA),
                                           RawLine(skuB, 1, << >>, << >>)>>)>>,
            Location |-> << >>]

TemplateStatus(t) ==
    CASE t = 2 -> Voided_mixed
      [] t = 3 -> CANCELLED
      [] OTHER -> COMPLETED

\* Order dates (day numbers) and creation times (minutes; the clock starts
\* at 0): the last order is created while the system runs.
TemplateDate(t) == IF t <= 2 THEN 1 ELSE 2
TemplateCreated(t) == CASE t <= 2 -> -20 [] t = 3 -> -2 [] t = 4 -> 0 [] OTHER -> 5

TemplateOf(i) == ((i - 1) % 5) + 1

Summary(i) ==
    [SaleID |-> <<ToString(i)>>,
     OrderNumber |-> <<"S", "O", ToString(i)>>,
     OrderDate |-> <<TemplateDate(TemplateOf(i)), 0>>,
     Status |-> TemplateStatus(TemplateOf(i)),
     created |-> TemplateCreated(TemplateOf(i))]

OrderIds == 1..NumOrders

\* All orders, in the order the API lists them, and their details.
AllSummaries == [i \in OrderIds |-> Summary(i)]
AllDetails == [i \in OrderIds |-> TemplateDetail(TemplateOf(i))]

Detail(i) == AllDetails[i]

\* An unexpected payload: the SKU of the last header line and of the last
\* pick line is null.
NullLastSku(lines) ==
    IF lines = << >> THEN lines
    ELSE [lines EXCEPT ![Len(lines)] = [@ EXCEPT !.SKU = None]]

Malformed(detail) ==
    LET n == Len(detail.Fulfilments) IN
    [detail EXCEPT
       !.Order = [@ EXCEPT !.Lines = NullLastSku(@)],
       !.Fulfilments =
          IF n = 0 THEN @
          ELSE [@ EXCEPT ![n] = Fulfilment(NullLastSku(@.Pick.Lines))]]

MalformedDetails == [i \in OrderIds |-> Malformed(AllDetails[i])]

\* GET /Sale?ID=.. during a pass with the given fault
DetailUnder(i, fault) ==
    IF fault.malformed = i THEN MalformedDetails[i] ELSE AllDetails[i]

\* line.get('SKU', '').strip() raises AttributeError on a null SKU
RawLinesRaise(line_items) ==
    \E i \in 1..Len(line_items) : line_items[i].SKU = None

IdOfSale(sale_id) == CHOOSE i \in OrderIds : AllSummaries[i].SaleID = sale_id

\* GET /SaleList?CreatedSince=since, asked at time now
SaleListCreatedSince(since, now) ==
    LET Keep(o) == since <= o.created /\ o.created <= now IN
    SelectSeq(AllSummaries, Keep)

\* GET /SaleList?OrderDateFrom=..&OrderDateTo=.., asked at time now
SaleListOrderDate(start_date, end_date, now) ==
    LET Keep(o) == /\ start_date <= DatePart(o.OrderDate)
                   /\ DatePart(o.OrderDate) <= end_date
                   /\ o.created <= now
    IN  SelectSeq(AllSummaries, Keep)

\* Page `page` of `limit` rows
PageOf(list, page, limit) ==
    SubSeq(list, (page - 1) * limit + 1, Min(page * limit, Len(list)))

\* The faults of one pass: the list request of one page fails for good, the
\* detail request of one order fails for good, the database raises before
\* the first request, the detail of one order comes malformed.
NoFault == [list_fail_page |-> 0, detail_fail |-> 0, db_fail |-> FALSE,
            malformed |-> 0]

(***************************************************************************)
(* SyncStore: the SQLite tables                                            *)
(***************************************************************************)

RefsOf(table) == {r.reference_id : r \in BagToSet(table)}

\* reference_id TEXT UNIQUE NOT NULL: would inserting the row violate it?
UniqueViolationNever(table, row) == FALSE

UniqueViolation(table, row) == row.reference_id \in RefsOf(table)

\* INSERT INTO orders: raises sqlite3.IntegrityError on a duplicate
InsertOrder(table, row) ==
    IF UniqueViolation(table, row)
    THEN [raised |-> TRUE, table |-> table]
    ELSE [raised |-> FALSE, table |-> table (+) SetToBag({row})]

\* INSERT OR REPLACE INTO orders: the row takes the place of the row that
\* has its reference_id
InsertOrReplaceOrder(table, row) ==
    LET kept == {r \in BagToSet(table) : r.reference_id # row.reference_id} IN
    SetToBag(kept \cup {row})

\* INSERT OR IGNORE INTO orders
InsertOrIgnoreOrder(table, row) ==
    IF UniqueViolation(table, row) THEN table ELSE table (+) SetToBag({row})

\* SELECT id FROM orders WHERE reference_id = ?
RefExists(table, reference_id) == reference_id \in RefsOf(table)

\* INSERT OR IGNORE INTO products (sku, description)
InsertOrIgnoreProduct(table, sku, description) ==
    IF \E p \in table : p.sku = sku THEN table
    ELSE table \cup {[sku |-> sku, description |-> description]}

SafetyBufferMinutes == 5
InitialLookbackMinutes == 10080

\* SyncManager.get_last_sync_time
GetLastSyncTime(state, sync_type, now) ==
    IF state[sync_type].present
    THEN state[sync_type].last_sync_timestamp
    ELSE now - InitialLookbackMinutes

\* SyncManager.update_sync_state: UPDATE ... WHERE sync_type = ?
UpdateSyncState(state, sync_type, timestamp, success) ==
    IF state[sync_type].present
    THEN [state EXCEPT ![sync_type] =
            [present |-> TRUE, last_sync_timestamp |-> timestamp,
             last_sync_success |-> success]]
    ELSE state

(***************************************************************************)
(* SyncManager (sync_manager.py)                                           *)
(***************************************************************************)

\* Limit of a list request (100 or 1000 in the sources), scaled down.
PageLimit == 2

\* The Location of every pick line of every fulfilment, in order.
RECURSIVE RawPickLocations(_)
RawPickLocations(fulfilments) ==
    IF fulfilments = << >> THEN << >>
    ELSE LET lines == Head(fulfilments).Pick.Lines IN
         [i \in 1..Len(lines) |-> lines[i].Location]
            \o RawPickLocations(Tail(fulfilments))

\* The first pick location that holds a fragment decides; a None location
\* makes the "in" test raise TypeError.
RECURSIVE FirstPickMatch(_, _, _)
FirstPickMatch(locations, vicFragments, qldFragments) ==
    IF locations = << >> THEN "none"
    ELSE LET location == Head(locations) IN
         IF location = None THEN "TypeError"
         ELSE IF \E f \in vicFragments : Contains(location, f) THEN "VIC"
         ELSE IF \E f \in qldFragments : Contains(location, f) THEN "QLD"
         ELSE FirstPickMatch(Tail(locations), vicFragments, qldFragments)

\* Fallback to the order location, then the default.
OrderLocationFallback(order_detail) ==
    IF order_detail.Location = None THEN "TypeError"
    ELSE IF Contains(order_detail.Location, VIC) THEN "VIC"
    ELSE IF Contains(order_detail.Location, QLD) THEN "QLD"
    ELSE "NSW"

\* SyncManager._map_warehouse_location
MapWarehouseLocation(order_detail) ==
    LET m == FirstPickMatch(RawPickLocations(order_detail.Fulfilments),
                            {CNTVIC, VIC}, {WCLQLD, QLD})
    IN  IF m # "none" THEN m ELSE OrderLocationFallback(order_detail)

\* The line loop of SyncManager._process_order_lines on one connection:
\* tx = [orders, products, existing_skus, lines_inserted, reobserved, raised]
RECURSIVE ProcessLinesLoop(_, _, _, _, _)
ProcessLinesLoop(order, order_detail, lines, tx, dry_run) ==
    IF lines = << >> \/ tx.raised THEN tx
    ELSE
      LET line == Head(lines)
          sku == Strip(line.SKU)
          quantity == line.Quantity
          description == line.Name
          rest == Tail(lines)
      IN
      \* .strip() raises AttributeError on None: caught by the except
      IF line.SKU = None THEN [tx EXCEPT !.raised = TRUE]
      ELSE IF sku = << >> \/ quantity <= 0
      THEN ProcessLinesLoop(order, order_detail, rest, tx, dry_run)
      ELSE
        LET warehouse == MapWarehouseLocation(order_detail)
            reference_id == ReferenceId(order.SaleID, sku)
        IN
        IF warehouse = "TypeError" THEN [tx EXCEPT !.raised = TRUE]
        ELSE IF RefExists(tx.orders, reference_id)
        THEN ProcessLinesLoop(order, order_detail, rest,
                              [tx EXCEPT !.reobserved = TRUE], dry_run)
        ELSE IF dry_run
        THEN ProcessLinesLoop(order, order_detail, rest,
                 [tx EXCEPT !.lines_inserted = @ + 1], dry_run)
        ELSE
          LET products1 == IF sku \notin tx.existing_skus
                           THEN InsertOrIgnoreProduct(tx.products, sku, description)
                           ELSE tx.products
              ins == InsertOrder(tx.orders,
                        [order_number |-> order.OrderNumber, sku |-> sku,
                         quantity |-> quantity, warehouse |-> warehouse,
                         booking_date |-> DatePart(order.OrderDate),
                         reference_id |-> reference_id])
              tx1 == [tx EXCEPT !.products = products1,
                                !.existing_skus = @ \cup {sku}]
          IN  IF ins.raised THEN [tx1 EXCEPT !.raised = TRUE]
              ELSE ProcessLinesLoop(order, order_detail, rest,
                       [tx1 EXCEPT !.orders = ins.table,
                                   !.lines_inserted = @ + 1], dry_run)

\* SyncManager._process_order_lines: commit, or rollback and return 0. The
\* in-memory set existing_skus keeps what the loop added either way.
ProcessOrderLines(order, order_detail, st, dry_run) ==
    IF order_detail.Order.Lines = << >>
    THEN [st EXCEPT !.lines_processed = 0]
    ELSE
      LET tx == ProcessLinesLoop(order, order_detail, order_detail.Order.Lines,
                    [orders |-> st.orders, products |-> st.products,
                     existing_skus |-> st.existing_skus, lines_inserted |-> 0,
                     reobserved |-> st.reobserved, raised |-> FALSE], dry_run)
      IN  IF tx.raised
          THEN [st EXCEPT !.existing_skus = tx.existing_skus,
                          !.lines_processed = 0, !.raised = TRUE]
          ELSE [st EXCEPT !.orders = tx.orders, !.products = tx.products,
                          !.existing_skus = tx.existing_skus,
                          !.reobserved = tx.reobserved,
                          !.lines_processed = tx.lines_inserted]

VoidStatuses == {VOIDED, VOID, CANCELLED, CANCELED}

\* The body of "for order in orders" of SyncManager.sync_recent_orders
SyncManagerOrder(order, st, dry_run, fault) ==
    LET st1 == [st EXCEPT !.processed = @ + 1]
        status == Upper(order.Status)
    IN
    IF status \in VoidStatuses
    THEN [st1 EXCEPT !.voided = @ + 1, !.void_seen = @ + 1]
    ELSE
      \* _get_order_detail returns None when the request fails
      IF fault.detail_fail = IdOfSale(order.SaleID)
      THEN [st1 EXCEPT !.detail_failed = TRUE]
      ELSE
        LET id == IdOfSale(order.SaleID)
            st2 == ProcessOrderLines(order, DetailUnder(id, fault),
                       [st1 EXCEPT !.detailed = @ \cup {id}, !.raised = FALSE],
                       dry_run)
            st3 == IF st2.raised /\ fault.malformed = id
                   THEN [st2 EXCEPT !.malformed = id,
                                    !.malformed_counted = st2.lines_processed = 0]
                   ELSE st2
        IN  IF st3.lines_processed > 0
            THEN [st3 EXCEPT !.inserted = @ + st3.lines_processed]
            ELSE [st3 EXCEPT !.skipped = @ + 1]

RECURSIVE SyncManagerOrders(_, _, _, _)
SyncManagerOrders(page_orders, st, dry_run, fault) ==
    IF page_orders = << >> THEN st
    ELSE SyncManagerOrders(Tail(page_orders),
             SyncManagerOrder(Head(page_orders), st, dry_run, fault),
             dry_run, fault)

\* "for page in range(1, max_pages + 1)": a failed list request is caught
\* and ends the loop.
RECURSIVE SyncManagerPages(_, _, _, _, _, _)
SyncManagerPages(page, max_pages, list, st, dry_run, fault) ==
    IF page > max_pages THEN st
    ELSE IF fault.list_fail_page = page THEN [st EXCEPT !.list_failed = TRUE]
    ELSE
      LET page_orders == PageOf(list, page, PageLimit) IN
      IF page_orders = << >> THEN st
      ELSE LET st1 == SyncManagerOrders(page_orders,
                          [st EXCEPT !.pages = @ + 1], dry_run, fault)
           IN  IF Len(page_orders) < PageLimit THEN st1
               ELSE SyncManagerPages(page + 1, max_pages, list, st1, dry_run, fault)

\* The counters and the working copy of the store during a pass.
\* void_seen counts the void or cancelled orders the pass met and
\* void_detailed tells whether it asked for the detail of one; detailed are
\* the orders whose detail the pass requested; malformed is the order whose
\* malformed detail made the processing raise (0 when none did) and
\* malformed_counted whether the skipped counter grew for it; raised tells
\* that an exception is propagating.
PassStart(tbl_orders, tbl_products) ==
    [orders |-> tbl_orders, products |-> tbl_products,
     existing_skus |-> {p.sku : p \in tbl_products},
     processed |-> 0, inserted |-> 0, skipped |-> 0, voided |-> 0,
     lines_processed |-> 0, pages |-> 0,
     void_seen |-> 0, void_detailed |-> FALSE,
     reobserved |-> FALSE, list_failed |-> FALSE, detail_failed |-> FALSE,
     detailed |-> {}, malformed |-> 0, malformed_counted |-> FALSE,
     raised |-> FALSE]

\* What lastPass keeps of a pass. A specification about the tables observes
\* the call, whether the pass re-observed a stored reference id and what
\* it did with void orders (voided is the voided counter of the result, or
\* -1 when the result has none, which counts as nothing miscounted). A
\* specification about sync_state observes
\* the sync_state row before the pass, its start time, whether a request
\* failed for good (fatal: a list request or the database; fetch_failed: a
\* list or a detail request) and the success flag of the result. A
\* specification about dry runs observes the call, whether the pass is the
\* real run of the dry run before it, and the caches of the process before
\* the pass. A
\* specification about the result of a pass observes its counters next to
\* what the pass did: the lines count it reports and the rows it added, the
\* orders whose detail it requested and whose lines it stored, those of them
\* that had stored rows before, and the order whose malformed detail raised.
OrderRows(table, i) ==
    {r \in BagToSet(table) : r.order_number = AllSummaries[i].OrderNumber}

StoredOrders(table) == {i \in OrderIds : OrderRows(table, i) # {}}

PassRecord(call, fault, sync_type, sync_start, st, voided, success) ==
    IF lastPass.observe = "result"
    THEN LET synced == StoredOrders(orders)
             listed == {IdOfSale(call.listed[k]) : k \in DOMAIN call.listed}
         IN
         [kind |-> call.kind, observe |-> "result",
          success |-> success, dry_run |-> call.dry_run, cap |-> call.cap,
          malformed |-> st.malformed,
          malformed_counted |-> st.malformed_counted,
          malformed_stored |->
              IF st.malformed = 0 THEN 0
              ELSE Cardinality(OrderRows(st.orders, st.malformed))
                   - Cardinality(OrderRows(orders, st.malformed)),
          reported |-> st.inserted,
          added |-> BagCardinality(st.orders) - BagCardinality(orders),
          detailed |-> Cardinality(st.detailed),
          stored |-> Cardinality({i \in OrderIds :
                         OrderRows(st.orders, i) # OrderRows(orders, i)}),
          synced_listed |-> Cardinality(listed \cap synced),
          synced_detailed |-> Cardinality(st.detailed \cap synced),
          skipped_existing |-> st.skipped]
    ELSE IF lastPass.observe = "dry_run"
    THEN [kind |-> call.kind, observe |-> "dry_run", call |-> call,
          clean |-> fault = NoFault,
          after_dry |-> /\ lastPass.kind # "none" /\ lastPass.clean
                        /\ fault = NoFault
                        /\ lastPass.call = [call EXCEPT !.dry_run = TRUE]
                        /\ ~call.dry_run,
          cache_before |-> optimized]
    ELSE IF lastPass.observe = "tables"
    THEN [kind |-> call.kind, observe |-> "tables", call |-> call,
          again |-> lastPass.kind # "none" /\ lastPass.call = call
                    /\ lastPass.clean,
          clean |-> fault = NoFault,
          reobserved |-> st.reobserved,
          void_seen |-> st.void_seen > 0,
          void_detailed |-> st.void_detailed,
          void_counted |-> voided < 0 \/ voided = st.void_seen]
    ELSE [kind |-> call.kind, observe |-> "sync_state",
          sync_type |-> sync_type, dry_run |-> call.dry_run,
          row_before |-> IF sync_type \in DOMAIN sync_state
                         THEN sync_state[sync_type] ELSE NoRow,
          sync_start |-> sync_start,
          fatal |-> fault.db_fail \/ st.list_failed,
          fetch_failed |-> st.list_failed \/ st.detail_failed,
          success |-> success]

\* A behaviour runs MaxPasses passes at most.
MaxPasses == 2

CountPass == passes > 0 /\ passes' = passes - 1

\* The orders whose detail request may fail.
FaultyDetails == {1, NumOrders}

\* One fault at most in a pass.
Faults(pages) ==
    {NoFault}
    \cup {[NoFault EXCEPT !.list_fail_page = p] : p \in 1..pages}
    \cup {[NoFault EXCEPT !.detail_fail = d] : d \in FaultyDetails}
    \cup {[NoFault EXCEPT !.db_fail = TRUE]}

\* A specification about results looks at passes whose requests succeed
\* and lets the detail of one order come malformed.
PassFaults(pages) ==
    IF lastPass.observe = "result"
    THEN {NoFault} \cup {[NoFault EXCEPT !.malformed = d] : d \in FaultyDetails}
    ELSE Faults(pages)

Durations == {0, TickMinutes}

\* The pages that list every order, and the order dates.
PagesOfAll == (NumOrders + PageLimit - 1) \div PageLimit
Days == {TemplateDate(t) : t \in 1..5}

MaxPagesArg == 3

\* The SaleIDs of a list: the source data a pass was given.
SaleIdsOf(list) == [i \in 1..Len(list) |-> list[i].SaleID]

\* SyncManager.sync_recent_orders(max_pages, dry_run)
SyncManagerSyncRecentOrders ==
    \E max_pages \in {1, MaxPagesArg}, dry_run \in BOOLEAN,
       fault \in PassFaults(PagesOfAll), duration \in Durations :
      LET sync_start == clock
          last_sync == GetLastSyncTime(sync_state, "cin7_orders", clock)
          safe_last_sync == last_sync - SafetyBufferMinutes
          list == SaleListCreatedSince(safe_last_sync, clock)
          call == [kind |-> "SyncManager", window |-> <<safe_last_sync>>,
                   cap |-> max_pages, dry_run |-> dry_run,
                   listed |-> SaleIdsOf(list)]
          start == PassStart(orders, products)
      IN
      /\ CountPass
      /\ clock + duration <= MaxClock
      /\ clock' = clock + duration
      /\ UNCHANGED <<optimized, lockVars, fnVars, httpVars>>
      /\ IF fault.db_fail
         THEN \* the preload raises: the outer except
              /\ orders' = orders
              /\ products' = products
              /\ sync_state' = IF ~dry_run
                               THEN UpdateSyncState(sync_state, "cin7_orders",
                                                    sync_start, FALSE)
                               ELSE sync_state
              /\ lastPass' = PassRecord(call, fault, "cin7_orders", sync_start,
                                        start, 0, FALSE)
         ELSE \E st \in {SyncManagerPages(1, max_pages, list, start, dry_run, fault)} :
              /\ orders' = st.orders
              /\ products' = st.products
              /\ sync_state' = IF ~dry_run
                               THEN UpdateSyncState(sync_state, "cin7_orders",
                                                    sync_start, TRUE)
                               ELSE sync_state
              /\ lastPass' = PassRecord(call, fault, "cin7_orders", sync_start,
                                        st, st.voided, TRUE)

(***************************************************************************)
(* UnifiedCin7Client (unified_stock_app.py)                                *)
(***************************************************************************)

\* "while page <= 20"
PageSafetyLimit == 20

\* Values of max_orders: a small cap and one that covers every order.
MaxOrdersArgs == {1, NumOrders}

\* The try-block of the order ends in "except Exception: continue" because
\* collecting the pick lines or the order lines of its malformed detail
\* raised. No counter of the result grows.
UnifiedRaises(order, fault) ==
    LET detail == MalformedDetails[fault.malformed] IN
    /\ fault.malformed = IdOfSale(order.SaleID)
    /\ \/ \E f \in DOMAIN detail.Fulfilments :
             RawLinesRaise(detail.Fulfilments[f].Pick.Lines)
       \/ RawLinesRaise(detail.Order.Lines)

\* The rows the try-block of one order yields: none when the detail request
\* fails or a line raises.
UnifiedOrderRows(order, fault) ==
    IF fault.detail_fail = IdOfSale(order.SaleID) \/ UnifiedRaises(order, fault)
    THEN << >>
    ELSE BatchRowsUnified(order,
             LinesToProcess(DetailUnder(IdOfSale(order.SaleID), fault)))

\* What a pass notes of an order it did not skip (detailed) or skipped.
NoteOrder(st, order, detailed) ==
    LET void == Upper(order.Status) \in VoidStatuses IN
    [st EXCEPT !.void_seen = IF void THEN @ + 1 ELSE @,
               !.void_detailed = @ \/ (void /\ detailed)]

\* The detail request of the order is issued: it may be the one that fails.
NoteDetail(st, order, fault) ==
    [NoteOrder(st, order, TRUE) EXCEPT
        !.detail_failed = @ \/ fault.detail_fail = IdOfSale(order.SaleID),
        !.detailed = @ \cup {IdOfSale(order.SaleID)}]

NoteUnified(st, order, fault) ==
    IF UnifiedRaises(order, fault)
    THEN [NoteDetail(st, order, fault) EXCEPT !.malformed = fault.malformed]
    ELSE NoteDetail(st, order, fault)

\* sync_date_window, the line loop: SELECT id ... WHERE reference_id, then
\* INSERT OR IGNORE INTO products and INSERT INTO orders.
RECURSIVE StoreRowsChecked(_, _, _)
StoreRowsChecked(rows, descriptions, st) ==
    IF rows = << >> THEN st
    ELSE
      LET row == Head(rows) IN
      IF RefExists(st.orders, row.reference_id)
      THEN StoreRowsChecked(Tail(rows), Tail(descriptions),
                            [st EXCEPT !.reobserved = TRUE])
      ELSE
        LET ins == InsertOrder(st.orders, row) IN
        IF ins.raised THEN st   \* except Exception: continue with next order
        ELSE StoreRowsChecked(Tail(rows), Tail(descriptions),
                 [st EXCEPT !.orders = ins.table,
                            !.products = InsertOrIgnoreProduct(@, row.sku,
                                                               Head(descriptions)),
                            !.inserted = @ + 1])

\* The description of every valid line, in line order.
RECURSIVE DescriptionsOf(_)
DescriptionsOf(lines) ==
    IF lines = << >> THEN << >>
    ELSE IF ValidLine(Head(lines))
         THEN <<Head(lines).description>> \o DescriptionsOf(Tail(lines))
         ELSE DescriptionsOf(Tail(lines))

\* "for order in orders" of sync_date_window
RECURSIVE UnifiedWindowOrders(_, _, _)
UnifiedWindowOrders(list, st, fault) ==
    IF list = << >> THEN st
    ELSE
      LET order == Head(list) IN
      IF Upper(order.Status) = VOIDED
      THEN UnifiedWindowOrders(Tail(list), NoteOrder(st, order, FALSE), fault)
      ELSE
        LET st1 == NoteUnified(st, order, fault)
            rows == UnifiedOrderRows(order, fault)
            descriptions ==
                IF rows = << >> THEN << >>
                ELSE DescriptionsOf(LinesToProcess(
                         DetailUnder(IdOfSale(order.SaleID), fault)))
        IN  UnifiedWindowOrders(Tail(list),
                StoreRowsChecked(rows, descriptions, st1), fault)

\* The batch insert after a page of sync_recent_orders: products get the sku
\* as description, orders are INSERT OR IGNORE.
RECURSIVE InsertBatchOrIgnore(_, _)
InsertBatchOrIgnore(batch_data, st) ==
    IF batch_data = << >> THEN st
    ELSE LET row == Head(batch_data) IN
         InsertBatchOrIgnore(Tail(batch_data),
             [st EXCEPT !.orders = InsertOrIgnoreOrder(@, row),
                        !.products = InsertOrIgnoreProduct(@, row.sku, row.sku),
                        !.reobserved = @ \/ RefExists(st.orders, row.reference_id)])

\* The two loops over one page of sync_recent_orders: filter, then collect
\* batch_data. existing_orders holds reference ids and is searched for the
\* sale id.
RECURSIVE UnifiedRecentBatch(_, _, _, _)
UnifiedRecentBatch(page_orders, existing_orders, acc, fault) ==
    IF page_orders = << >> THEN acc
    ELSE
      LET order == Head(page_orders)
          rest == Tail(page_orders)
      IN
      IF Upper(order.Status) = VOIDED
      THEN UnifiedRecentBatch(rest, existing_orders,
               [acc EXCEPT !.st = NoteOrder(@, order, FALSE)], fault)
      ELSE IF ~Truthy(order.SaleID)
      THEN UnifiedRecentBatch(rest, existing_orders, acc, fault)
      ELSE IF order.SaleID \in existing_orders
      THEN UnifiedRecentBatch(rest, existing_orders,
               [acc EXCEPT !.st = [@ EXCEPT !.skipped = @ + 1]], fault)
      ELSE UnifiedRecentBatch(rest, existing_orders,
               [acc EXCEPT !.st = NoteUnified(@, order, fault),
                           !.batch_data = @ \o UnifiedOrderRows(order, fault)],
               fault)

\* "while page <= 20 and total_fetched < max_orders"
RECURSIVE UnifiedRecentPages(_, _, _, _, _, _, _)
UnifiedRecentPages(page, total_fetched, max_orders, list, existing_orders, st, fault) ==
    IF ~(page <= PageSafetyLimit /\ total_fetched < max_orders) THEN st
    ELSE IF fault.list_fail_page = page THEN [st EXCEPT !.list_failed = TRUE]
    ELSE
      LET page_orders == PageOf(list, page, PageLimit) IN
      IF page_orders = << >> THEN st
      ELSE
        LET acc == UnifiedRecentBatch(page_orders, existing_orders,
                       [st |-> [st EXCEPT !.processed = @ + Len(page_orders),
                                          !.pages = @ + 1],
                        batch_data |-> << >>], fault)
            st1 == IF acc.batch_data # << >>
                   THEN [InsertBatchOrIgnore(acc.batch_data, acc.st)
                            EXCEPT !.inserted = @ + Len(acc.batch_data)]
                   ELSE acc.st
        IN  IF Len(page_orders) < PageLimit THEN st1
            ELSE UnifiedRecentPages(page + 1, total_fetched + Len(page_orders),
                                    max_orders, list, existing_orders, st1, fault)

\* UnifiedCin7Client.sync_recent_orders(created_since, max_orders) asked at
\* time now: the state at its return.
UnifiedSyncRecent(created_since, max_orders, now, tbl_orders, tbl_products, fault) ==
    LET start == PassStart(tbl_orders, tbl_products) IN
    IF fault.db_fail THEN start
    ELSE UnifiedRecentPages(1, 0, max_orders,
                            SaleListCreatedSince(created_since, now),
                            RefsOf(tbl_orders), start, fault)

\* UnifiedCin7Client.sync_recent_orders(created_since, max_orders), called
\* by /api/sync/recent: it keeps no sync_state.
CreatedSinceArgs == {0 - 30, 0 - 1}

UnifiedSyncRecentOrders ==
    \E created_since \in CreatedSinceArgs, max_orders \in MaxOrdersArgs,
       fault \in PassFaults(PagesOfAll) :
      LET call == [kind |-> "UnifiedRecent", window |-> <<created_since>>,
                   cap |-> max_orders, dry_run |-> FALSE,
                   listed |-> SaleIdsOf(SaleListCreatedSince(created_since, clock))]
      IN
      /\ CountPass
      /\ \E st \in {UnifiedSyncRecent(created_since, max_orders, clock,
                                      orders, products, fault)} :
           /\ orders' = st.orders
           /\ products' = st.products
           /\ lastPass' = PassRecord(call, fault, "none", clock, st, 0 - 1,
                                     ~(fault.db_fail \/ st.list_failed))
      /\ UNCHANGED <<clock, sync_state, optimized, lockVars, fnVars, httpVars>>

\* UnifiedCin7Client.sync_date_window(start_date, end_date, max_orders),
\* called by /api/sync/window: one list request, then [:max_orders].
UnifiedSyncDateWindow ==
    \E start_date \in Days, end_date \in Days, max_orders \in MaxOrdersArgs,
       fault \in PassFaults(1) :
      LET listed == PageOf(SaleListOrderDate(start_date, end_date, clock),
                           1, PageLimit)
          list == SubSeq(listed, 1, Min(max_orders, Len(listed)))
          call == [kind |-> "UnifiedWindow", window |-> <<start_date, end_date>>,
                   cap |-> max_orders, dry_run |-> FALSE,
                   listed |-> SaleIdsOf(listed)]
          start == PassStart(orders, products)
          failed == fault.list_fail_page = 1 \/ fault.db_fail
      IN
      /\ CountPass
      /\ start_date <= end_date
      /\ \E st \in {IF failed THEN [start EXCEPT !.list_failed = TRUE]
                    ELSE UnifiedWindowOrders(list, start, fault)} :
           /\ orders' = st.orders
           /\ products' = st.products
           /\ lastPass' = PassRecord(call, fault, "none", clock, st, 0 - 1, ~failed)
      /\ UNCHANGED <<clock, sync_state, optimized, lockVars, fnVars, httpVars>>

(***************************************************************************)
(* OptimizedCin7Sync (optimized_sync.py): one instance per process, with   *)
(* existing_references and sku_map (its keys) loaded at construction       *)
(***************************************************************************)

\* batch_size = 50, scaled down
BatchSize == 2

\* OptimizedCin7Sync._map_warehouse_optimized
MapWarehouseOptimized(order_detail) ==
    LET m == FirstPickMatch(RawPickLocations(order_detail.Fulfilments),
                            {CNTVIC, VIC}, {WCLQLD, QLD})
    IN  IF m # "none" THEN m ELSE OrderLocationFallback(order_detail)

\* OptimizedCin7Sync._extract_lines_optimized: the header lines
RECURSIVE ExtractLinesOptimized(_, _, _)
ExtractLinesOptimized(order, order_detail, line_items) ==
    IF line_items = << >> THEN << >>
    ELSE
      LET line == Head(line_items)
          sku == Strip(line.SKU)
          rest == ExtractLinesOptimized(order, order_detail, Tail(line_items))
      IN
      IF sku = << >> \/ line.Quantity <= 0 THEN rest
      ELSE LET warehouse == MapWarehouseOptimized(order_detail) IN
           IF warehouse \notin {"VIC", "QLD", "NSW"} THEN rest
           ELSE <<[order_number |-> order.OrderNumber, sku |-> sku,
                   description |-> line.Name, quantity |-> line.Quantity,
                   warehouse |-> warehouse,
                   booking_date |-> DatePart(order.OrderDate),
                   reference_id |-> ReferenceId(order.SaleID, sku)]>> \o rest

\* The lines of every order, extracted once.
OptimizedLinesOf ==
    [i \in OrderIds |->
        ExtractLinesOptimized(AllSummaries[i], AllDetails[i],
                              AllDetails[i].Order.Lines)]

\* "for line in lines": the duplicate check on the preloaded set, which also
\* grows in a dry run. acc = [st, cache, new_products, new_orders]
RECURSIVE OptimizedLinesToStore(_, _, _)
OptimizedLinesToStore(lines, cache, kept) ==
    IF lines = << >> THEN [cache |-> cache, lines_to_store |-> kept]
    ELSE LET line == Head(lines) IN
         IF line.reference_id \in cache.existing_references
         THEN OptimizedLinesToStore(Tail(lines), cache, kept)
         ELSE OptimizedLinesToStore(Tail(lines),
                  [cache EXCEPT !.existing_references = @ \cup {line.reference_id}],
                  Append(kept, line))

RECURSIVE OptimizedQueueLines(_, _)
OptimizedQueueLines(lines_to_store, acc) ==
    IF lines_to_store = << >> THEN acc
    ELSE
      LET line == Head(lines_to_store)
          fresh == line.sku \notin acc.cache.sku_map
          row == [order_number |-> line.order_number, sku |-> line.sku,
                  quantity |-> line.quantity, warehouse |-> line.warehouse,
                  booking_date |-> line.booking_date,
                  reference_id |-> line.reference_id]
      IN  OptimizedQueueLines(Tail(lines_to_store),
              [acc EXCEPT
                 !.new_products = IF fresh
                                  THEN Append(@, [sku |-> line.sku,
                                                  description |-> line.description])
                                  ELSE @,
                 !.cache = IF fresh THEN [@ EXCEPT !.sku_map = @ \cup {line.sku}]
                           ELSE @,
                 !.new_orders = Append(@, row)])

\* "for order in orders" of _process_order_batch
RECURSIVE OptimizedBatchOrders(_, _, _)
OptimizedBatchOrders(batch_orders, acc, fault) ==
    IF batch_orders = << >> THEN acc
    ELSE
      LET order == Head(batch_orders)
          rest == Tail(batch_orders)
          acc1 == [acc EXCEPT !.st = [@ EXCEPT !.processed = @ + 1]]
          Skip(a) == [a EXCEPT !.st = [@ EXCEPT !.skipped = @ + 1]]
      IN
      IF Upper(order.Status) = VOIDED
      THEN OptimizedBatchOrders(rest,
               [acc1 EXCEPT !.st = [NoteOrder(@, order, FALSE)
                                       EXCEPT !.voided = @ + 1]], fault)
      ELSE IF ~Truthy(order.OrderNumber) \/ ~Truthy(order.SaleID)
      THEN OptimizedBatchOrders(rest, Skip(acc1), fault)
      ELSE
        LET id == IdOfSale(order.SaleID)
            acc2 == [acc1 EXCEPT !.st = NoteDetail(@, order, fault)]
            malformed == MalformedDetails[id]
            raises == fault.malformed = id
                      /\ RawLinesRaise(malformed.Order.Lines)
            lines == IF fault.malformed = id
                     THEN ExtractLinesOptimized(order, malformed,
                                                malformed.Order.Lines)
                     ELSE OptimizedLinesOf[id]
        IN
        \* _extract_lines_optimized is called outside any try: the exception
        \* leaves _process_order_batch
        IF raises
        THEN [acc2 EXCEPT !.st = [@ EXCEPT !.raised = TRUE, !.malformed = id]]
        ELSE IF fault.detail_fail = id \/ lines = << >>
        THEN OptimizedBatchOrders(rest, Skip(acc2), fault)
        ELSE
          LET chk == OptimizedLinesToStore(lines, acc2.cache, << >>)
              acc3 == [acc2 EXCEPT
                         !.cache = chk.cache,
                         !.st = [@ EXCEPT !.reobserved =
                                     @ \/ Len(chk.lines_to_store) < Len(lines)]]
          IN
          IF chk.lines_to_store = << >>
          THEN OptimizedBatchOrders(rest, Skip(acc3), fault)
          ELSE OptimizedBatchOrders(rest,
                   OptimizedQueueLines(chk.lines_to_store,
                       [acc3 EXCEPT !.st = [@ EXCEPT !.inserted =
                                               @ + Len(chk.lines_to_store)]]),
                   fault)

\* executemany INSERT INTO orders: stops at the first IntegrityError
RECURSIVE InsertMany(_, _)
InsertMany(table, rows) ==
    IF rows = << >> THEN [raised |-> FALSE, table |-> table]
    ELSE LET ins == InsertOrder(table, Head(rows)) IN
         IF ins.raised THEN ins ELSE InsertMany(ins.table, Tail(rows))

RECURSIVE InsertManyProducts(_, _)
InsertManyProducts(table, rows) ==
    IF rows = << >> THEN table
    ELSE InsertManyProducts(
             InsertOrIgnoreProduct(table, Head(rows).sku, Head(rows).description),
             Tail(rows))

\* OptimizedCin7Sync._batch_insert_data: commit, or rollback of both tables
BatchInsertData(st, new_products, new_orders) ==
    LET ins == InsertMany(st.orders, new_orders) IN
    IF ins.raised THEN st
    ELSE [st EXCEPT !.orders = ins.table,
                    !.products = InsertManyProducts(@, new_products)]

\* OptimizedCin7Sync._process_order_batch
ProcessOrderBatch(batch_orders, pass, dry_run, fault) ==
    LET acc == OptimizedBatchOrders(batch_orders,
                   [st |-> pass.st, cache |-> pass.cache,
                    new_products |-> << >>, new_orders |-> << >>], fault)
    IN  [st |-> IF ~acc.st.raised /\ ~dry_run
                   /\ (acc.new_products # << >> \/ acc.new_orders # << >>)
                THEN BatchInsertData(acc.st, acc.new_products, acc.new_orders)
                ELSE acc.st,
         cache |-> acc.cache]

\* "for batch_num in range(total_batches)"
RECURSIVE OptimizedBatches(_, _, _, _)
OptimizedBatches(all_orders, pass, dry_run, fault) ==
    IF all_orders = << >> \/ pass.st.raised THEN pass
    ELSE LET n == Min(BatchSize, Len(all_orders)) IN
         OptimizedBatches(SubSeq(all_orders, n + 1, Len(all_orders)),
             ProcessOrderBatch(SubSeq(all_orders, 1, n), pass, dry_run, fault),
             dry_run, fault)

\* The "while True" list loop: all_orders, or "failed" when a list request
\* fails. max_orders = 0 stands for None. The cap is looked at only after a
\* full page.
RECURSIVE OptimizedFetchAll(_, _, _, _, _)
OptimizedFetchAll(page, list, all_orders, max_orders, fault) ==
    IF fault.list_fail_page = page THEN [failed |-> TRUE, all_orders |-> << >>]
    ELSE
      LET page_orders == PageOf(list, page, PageLimit)
          fetched == all_orders \o page_orders
      IN
      IF page_orders = << >> THEN [failed |-> FALSE, all_orders |-> all_orders]
      ELSE IF Len(page_orders) < PageLimit
      THEN [failed |-> FALSE, all_orders |-> fetched]
      ELSE IF max_orders # 0 /\ Len(fetched) >= max_orders
      THEN [failed |-> FALSE, all_orders |-> SubSeq(fetched, 1, max_orders)]
      ELSE OptimizedFetchAll(page + 1, list, fetched, max_orders, fault)

\* OptimizedCin7Sync.sync_optimized_window(start_date, end_date, max_orders,
\* dry_run), called by /sync/optimized
OptimizedSyncWindow ==
    \E start_date \in Days, end_date \in Days, max_orders \in {0} \cup MaxOrdersArgs,
       dry_run \in BOOLEAN, fault \in PassFaults(PagesOfAll) :
      LET listed == SaleListOrderDate(start_date, end_date, clock)
          call == [kind |-> "Optimized", window |-> <<start_date, end_date>>,
                   cap |-> max_orders, dry_run |-> dry_run,
                   listed |-> SaleIdsOf(listed)]
          start == PassStart(orders, products)
          fetch == OptimizedFetchAll(1, listed, << >>, max_orders, fault)
      IN
      /\ CountPass
      /\ start_date <= end_date
      /\ ~fault.db_fail
      /\ \E pass \in {IF fetch.failed
                      THEN [st |-> [start EXCEPT !.list_failed = TRUE],
                            cache |-> optimized]
                      ELSE OptimizedBatches(fetch.all_orders,
                               [st |-> start, cache |-> optimized],
                               dry_run, fault)} :
           /\ orders' = pass.st.orders
           /\ products' = pass.st.products
           /\ optimized' = pass.cache
           /\ lastPass' = PassRecord(call, fault, "none", clock, pass.st,
                                     pass.st.voided,
                                     ~fetch.failed /\ ~pass.st.raised)
      /\ UNCHANGED <<clock, sync_state, lockVars, fnVars, httpVars>>

\* The process of optimized_sync.py starts again: __init__ runs
\* _preload_data on the tables as they are.
OptimizedRestart ==
    /\ optimized' = [existing_references |-> RefsOf(orders),
                     sku_map |-> {p.sku : p \in products}]
    /\ optimized' # optimized
    /\ UNCHANGED <<clock, orders, products, sync_state, lastPass, passes,
                   lockVars, fnVars, httpVars>>

(***************************************************************************)
(* RateLimitedCin7Sync (rate_limited_sync.py)                              *)
(***************************************************************************)

\* RateLimitedCin7Sync._map_warehouse
MapWarehouseRateLimited(order_detail) ==
    LET m == FirstPickMatch(RawPickLocations(order_detail.Fulfilments),
                            {CNTVIC}, {WCLQLD})
    IN  IF m # "none" THEN m ELSE OrderLocationFallback(order_detail)

\* RateLimitedCin7Sync._extract_order_lines
RECURSIVE ExtractOrderLines(_, _, _)
ExtractOrderLines(order, order_detail, line_items) ==
    IF line_items = << >> THEN << >>
    ELSE
      LET line == Head(line_items)
          sku == Strip(line.SKU)
          rest == ExtractOrderLines(order, order_detail, Tail(line_items))
      IN
      IF sku # << >> /\ line.Quantity > 0
      THEN <<[order_number |-> order.OrderNumber, sku |-> sku,
              description |-> line.Name, quantity |-> line.Quantity,
              warehouse |-> MapWarehouseRateLimited(order_detail),
              booking_date |-> DatePart(order.OrderDate),
              reference_id |-> ReferenceId(order.SaleID, sku)]>> \o rest
      ELSE rest

\* The lines of every order, extracted once.
RateLimitedLinesOf ==
    [i \in OrderIds |->
        ExtractOrderLines(AllSummaries[i], AllDetails[i],
                          AllDetails[i].Order.Lines)]

\* "for line in lines: if self._store_order_line(...)": SELECT, then the
\* two inserts unless dry_run; an exception is caught per line.
RECURSIVE StoreOrderLines(_, _, _)
StoreOrderLines(lines, st, dry_run) ==
    IF lines = << >> THEN st
    ELSE
      LET line == Head(lines) IN
      IF RefExists(st.orders, line.reference_id)
      THEN StoreOrderLines(Tail(lines), [st EXCEPT !.reobserved = TRUE], dry_run)
      ELSE IF dry_run
      THEN StoreOrderLines(Tail(lines),
               [st EXCEPT !.lines_processed = @ + 1, !.inserted = @ + 1], dry_run)
      ELSE
        LET st1 == IF line.sku \notin st.existing_skus
                   THEN [st EXCEPT
                           !.products = InsertOrIgnoreProduct(@, line.sku,
                                                              line.description),
                           !.existing_skus = @ \cup {line.sku}]
                   ELSE st
            ins == InsertOrder(st1.orders,
                      [order_number |-> line.order_number, sku |-> line.sku,
                       quantity |-> line.quantity, warehouse |-> line.warehouse,
                       booking_date |-> line.booking_date,
                       reference_id |-> line.reference_id])
        IN  IF ins.raised THEN StoreOrderLines(Tail(lines), st1, dry_run)
            ELSE StoreOrderLines(Tail(lines),
                     [st1 EXCEPT !.orders = ins.table,
                                 !.lines_processed = @ + 1,
                                 !.inserted = @ + 1], dry_run)

\* "for i, order in enumerate(orders)" of sync_date_window
RECURSIVE RateLimitedOrders(_, _, _, _)
RateLimitedOrders(list, st, dry_run, fault) ==
    IF list = << >> \/ st.raised THEN st
    ELSE
      LET order == Head(list)
          rest == Tail(list)
          st1 == [st EXCEPT !.processed = @ + 1]
          Skip(x) == [x EXCEPT !.skipped = @ + 1]
      IN
      IF Upper(order.Status) = VOIDED
      THEN RateLimitedOrders(rest,
               [NoteOrder(st1, order, FALSE) EXCEPT !.voided = @ + 1],
               dry_run, fault)
      ELSE IF ~Truthy(order.OrderNumber) \/ ~Truthy(order.SaleID)
      THEN RateLimitedOrders(rest, Skip(st1), dry_run, fault)
      ELSE
        LET id == IdOfSale(order.SaleID)
            st2 == NoteDetail(st1, order, fault)
            malformed == MalformedDetails[id]
            raises == fault.malformed = id
                      /\ RawLinesRaise(malformed.Order.Lines)
            lines == IF fault.malformed = id
                     THEN ExtractOrderLines(order, malformed,
                                            malformed.Order.Lines)
                     ELSE RateLimitedLinesOf[id]
        IN
        \* _extract_order_lines is called outside the try of the detail
        \* request: the exception reaches the except of sync_date_window
        IF raises THEN [st2 EXCEPT !.raised = TRUE, !.malformed = id]
        ELSE IF fault.detail_fail = id \/ lines = << >>
        THEN RateLimitedOrders(rest, Skip(st2), dry_run, fault)
        ELSE RateLimitedOrders(rest,
                 StoreOrderLines(lines, [st2 EXCEPT !.lines_processed = 0],
                                 dry_run),
                 dry_run, fault)

\* RateLimitedCin7Sync.sync_date_window(start_date, end_date, max_orders,
\* dry_run), called by /sync/window: one list request; max_orders = 0
\* stands for a falsy cap.
RateLimitedSyncDateWindow ==
    \E start_date \in Days, end_date \in Days, max_orders \in MaxOrdersArgs,
       dry_run \in BOOLEAN, fault \in PassFaults(1) :
      LET listed == PageOf(SaleListOrderDate(start_date, end_date, clock),
                           1, PageLimit)
          list == IF max_orders # 0
                  THEN SubSeq(listed, 1, Min(max_orders, Len(listed)))
                  ELSE listed
          call == [kind |-> "RateLimited", window |-> <<start_date, end_date>>,
                   cap |-> max_orders, dry_run |-> dry_run,
                   listed |-> SaleIdsOf(listed)]
          start == PassStart(orders, products)
          failed == fault.list_fail_page = 1 \/ fault.db_fail
      IN
      /\ CountPass
      /\ start_date <= end_date
      /\ \E st \in {IF failed THEN [start EXCEPT !.list_failed = TRUE]
                    ELSE RateLimitedOrders(list, start, dry_run, fault)} :
           /\ orders' = st.orders
           /\ products' = st.products
           /\ lastPass' = PassRecord(call, fault, "none", clock, st, st.voided,
                                     ~failed /\ ~st.raised)
      /\ UNCHANGED <<clock, sync_state, optimized, lockVars, fnVars, httpVars>>

(***************************************************************************)
(* SyncService.hourly_sync (sync_service.py), run alone                    *)
(***************************************************************************)

\* SYNC_OVERLAP_HOURS = 1, in minutes
OverlapMinutes == 60

\* SyncService.get_last_sync_time: the 'hourly' row, or the fixed default
\* date, which lies before every order of the model.
HourlyLastSyncTime(state) ==
    IF state["hourly"].present THEN state["hourly"].last_sync_timestamp
    ELSE 0 - InitialLookbackMinutes

\* SyncService.update_last_sync_time: INSERT OR REPLACE ... VALUES
\* ('hourly', ?, 1, CURRENT_TIMESTAMP)
UpdateLastSyncTime(state, timestamp) ==
    [state EXCEPT !["hourly"] =
        [present |-> TRUE, last_sync_timestamp |-> timestamp,
         last_sync_success |-> TRUE]]

\* hourly_sync when no other invocation is active: the lock file is created
\* at the start and removed in the finally clause of the same step.
HourlySync ==
    \E fault \in PassFaults(PagesOfAll), duration \in Durations :
      LET last_sync == HourlyLastSyncTime(sync_state)
          created_since == last_sync - OverlapMinutes
          call == [kind |-> "Hourly", window |-> <<created_since>>,
                   cap |-> NumOrders, dry_run |-> FALSE,
                   listed |-> SaleIdsOf(SaleListCreatedSince(created_since, clock))]
      IN
      /\ CountPass
      /\ ~lock_file.exists
      /\ clock + duration <= MaxClock
      /\ clock' = clock + duration
      /\ \E st \in {UnifiedSyncRecent(created_since, NumOrders, clock,
                                      orders, products, fault)} :
           LET success == ~(fault.db_fail \/ st.list_failed) IN
           /\ orders' = st.orders
           /\ products' = st.products
           /\ sync_state' = IF success
                            THEN UpdateLastSyncTime(sync_state, clock')
                            ELSE sync_state
           /\ lastPass' = PassRecord(call, fault, "hourly", clock, st, 0 - 1,
                                     success)
      /\ UNCHANGED <<optimized, lockVars, fnVars, httpVars>>

(***************************************************************************)
(* The sync specification                                                  *)
(***************************************************************************)

SyncTypes == {"cin7_orders", "hourly"}

\* After construction: empty tables; init_sync_tables seeds the cin7_orders
\* row seven days back; no 'hourly' row yet.
InitSync ==
    /\ LockIdle /\ FnIdle /\ HttpIdle
    /\ clock = 0
    /\ orders = EmptyBag
    /\ products = {}
    /\ sync_state = [t \in SyncTypes |->
                        IF t = "cin7_orders"
                        THEN [present |-> TRUE,
                              last_sync_timestamp |-> 0 - InitialLookbackMinutes,
                              last_sync_success |-> TRUE]
                        ELSE NoRow]
    /\ optimized = [existing_references |-> {}, sku_map |-> {}]
    /\ lastPass = NoPassObserving("tables")
    /\ passes = MaxPasses

\* The same, observing the result of every pass.
InitResult ==
    /\ LockIdle /\ FnIdle /\ HttpIdle
    /\ clock = 0
    /\ orders = EmptyBag
    /\ products = {}
    /\ sync_state = [t \in SyncTypes |->
                        IF t = "cin7_orders"
                        THEN [present |-> TRUE,
                              last_sync_timestamp |-> 0 - InitialLookbackMinutes,
                              last_sync_success |-> TRUE]
                        ELSE NoRow]
    /\ optimized = [existing_references |-> {}, sku_map |-> {}]
    /\ lastPass = NoPassObserving("result")
    /\ passes = MaxPasses

\* Time passes between passes.
Tick ==
    /\ clock + TickMinutes <= MaxClock
    /\ clock' = clock + TickMinutes
    /\ UNCHANGED <<orders, products, sync_state, optimized, lastPass, passes,
                   lockVars, fnVars, httpVars>>

Next ==
    \/ Tick
    \/ SyncManagerSyncRecentOrders
    \/ UnifiedSyncRecentOrders
    \/ UnifiedSyncDateWindow
    \/ HourlySync
    \/ OptimizedSyncWindow
    \/ OptimizedRestart
    \/ RateLimitedSyncDateWindow

Spec == InitSync /\ [][Next]_vars

\* C1: after any sequence of sync passes the orders store never holds two
\* rows with the same referenceId.
C1_ReferenceIdUnique ==
    /\ \A r \in BagToSet(orders) : CopiesIn(r, orders) = 1
    /\ \A r1, r2 \in BagToSet(orders) :
          r1.reference_id = r2.reference_id => r1 = r2

\* A pass has met a reference id that the store already held.
C1_Witness ==
    /\ lastPass.kind # "none"
    /\ lastPass.reobserved
    /\ passes = 0
    /\ orders # EmptyBag

\* The raw lines of an order at Cin7: its header lines and its pick lines.
RawLinesOf(i) ==
    LET detail == AllDetails[i] IN
    {detail.Order.Lines[k] : k \in DOMAIN detail.Order.Lines}
        \cup UNION {{detail.Fulfilments[f].Pick.Lines[k] :
                        k \in DOMAIN detail.Fulfilments[f].Pick.Lines} :
                    f \in DOMAIN detail.Fulfilments}

\* The skus of its lines that have a sku and a positive quantity.
ValidSkusOf(i) ==
    {Strip(l.SKU) : l \in {x \in RawLinesOf(i) :
                             Strip(x.SKU) # << >> /\ x.Quantity > 0}}

\* The orders that have a line with a blank sku or a quantity <= 0.
OrdersWithInvalidLine ==
    {i \in OrderIds : \E l \in RawLinesOf(i) :
                         Strip(l.SKU) = << >> \/ l.Quantity <= 0}

\* C23: every stored order-line row has a non-empty sku, free of
\* surrounding blanks, and a quantity greater than 0; and an order of
\* which a line is stored has a row for each of its valid skus and for no
\* other: an invalid line is dropped and affects no other line of its order.
C23_InvalidLinesNeverStored ==
    /\ \A r \in BagToSet(orders) :
          r.sku # << >> /\ Strip(r.sku) = r.sku /\ r.quantity > 0
    /\ \A i \in OrderIds :
          OrderRows(orders, i) # {} =>
              {r.sku : r \in OrderRows(orders, i)} = ValidSkusOf(i)

\* An order with a whitespace-only sku and a zero quantity among its lines
\* was processed: the row of its one valid line is stored.
C23_Witness ==
    \E i \in OrdersWithInvalidLine :
        /\ OrderRows(orders, i) # {}
        /\ \A r \in OrderRows(orders, i) : r.sku = skuB /\ r.quantity = 1

(***************************************************************************)
(* Two applications on one database: rate_limited_sync.py and              *)
(* optimized_sync.py write the same orders table, and the process of       *)
(* optimized_sync.py may start again between passes.                       *)
(***************************************************************************)

MaxSharedPasses == 3

InitShared ==
    /\ LockIdle /\ FnIdle /\ HttpIdle
    /\ clock = 0
    /\ orders = EmptyBag
    /\ products = {}
    /\ sync_state = [t \in SyncTypes |-> NoRow]
    /\ optimized = [existing_references |-> {}, sku_map |-> {}]
    /\ lastPass = NoPassObserving("tables")
    /\ passes = MaxSharedPasses

NextShared ==
    \/ RateLimitedSyncDateWindow
    \/ OptimizedSyncWindow
    \/ OptimizedRestart

SpecShared == InitShared /\ [][NextShared]_vars

\* The stored order-line rows as C2 compares them.
StoredRows(table) ==
    {[reference_id |-> r.reference_id, sku |-> r.sku, quantity |-> r.quantity,
      warehouse |-> r.warehouse, booking_date |-> r.booking_date] :
        r \in BagToSet(table)}

\* C2: a pass is idempotent: a pass that repeats the call of the pass before
\* it (same kind, window, cap and dry_run, same orders listed, no fault in
\* either) leaves the stored rows as they were; and any pass, whatever its
\* window, keeps every stored row as it is and adds rows only for reference
\* ids the store did not hold.
C2_PassIdempotent ==
    [][/\ (passes' # passes /\ lastPass'.again /\ lastPass'.clean)
            => StoredRows(orders') = StoredRows(orders)
       /\ \A r \in BagToSet(orders) : CopiesIn(r, orders') = CopiesIn(r, orders)
       /\ \A r \in BagToSet(orders') :
             ~BagIn(r, orders) => r.reference_id \notin RefsOf(orders)]_vars

\* A pass that stores rows was run again with the same call and met the
\* rows it had stored.
C2_Witness ==
    /\ lastPass.kind # "none"
    /\ lastPass.again /\ lastPass.clean
    /\ ~lastPass.call.dry_run
    /\ lastPass.reobserved
    /\ orders # EmptyBag

\* C25: the preloaded reference cache never runs ahead of the store: after
\* every pass of OptimizedCin7Sync, hence after its last call of
\* _process_order_batch, every reference id in existing_references is the
\* reference id of a row of the orders table.
C25_CacheWithinStore ==
    optimized.existing_references \subseteq RefsOf(orders)

\* A pass of OptimizedCin7Sync stored rows and its cache holds their
\* reference ids and no other.
C25_Witness ==
    /\ lastPass.kind = "Optimized"
    /\ optimized.existing_references # {}
    /\ optimized.existing_references = RefsOf(orders)

\* The order numbers of the orders whose list status is void or cancelled.
VoidOrderNumbers ==
    {AllSummaries[i].OrderNumber :
        i \in {j \in OrderIds : Upper(AllSummaries[j].Status) \in VoidStatuses}}

\* C7: an order whose list status is VOIDED, VOID, CANCELLED or CANCELED in
\* any letter case has no stored line, no pass asks for its detail, and the
\* voided counter of a pass counts every such order the pass met.
C7_VoidOrdersContributeNothing ==
    /\ \A r \in BagToSet(orders) : r.order_number \notin VoidOrderNumbers
    /\ (lastPass.kind # "none" /\ lastPass.void_seen)
          => (~lastPass.void_detailed /\ lastPass.void_counted)

(***************************************************************************)
(* The sync_state specification: the passes that keep a sync_state row     *)
(***************************************************************************)

InitState ==
    /\ LockIdle /\ FnIdle /\ HttpIdle
    /\ clock = 0
    /\ orders = EmptyBag
    /\ products = {}
    /\ sync_state = [t \in SyncTypes |->
                        IF t = "cin7_orders"
                        THEN [present |-> TRUE,
                              last_sync_timestamp |-> 0 - InitialLookbackMinutes,
                              last_sync_success |-> TRUE]
                        ELSE NoRow]
    /\ optimized = [existing_references |-> {}, sku_map |-> {}]
    /\ lastPass = NoPassObserving("sync_state")
    /\ passes = MaxPasses

NextState ==
    \/ Tick
    \/ SyncManagerSyncRecentOrders
    \/ HourlySync

SpecState == InitState /\ [][NextState]_vars

\* The latest pass was a real run (not a dry run) of a pass that keeps a
\* sync_state row.
StatefulPass ==
    /\ lastPass.kind # "none"
    /\ lastPass.sync_type \in SyncTypes
    /\ ~lastPass.dry_run

\* C3: after a pass in which a request failed for good, the stored
\* lastSyncTimestamp is what it was before the pass.
C3_FatalLeavesTimestamp ==
    (StatefulPass /\ lastPass.fatal) =>
        LET now_row == sync_state[lastPass.sync_type]
            before == lastPass.row_before
        IN  /\ now_row.present = before.present
            /\ now_row.present =>
                  now_row.last_sync_timestamp = before.last_sync_timestamp

\* C4: after a pass without a fatal error, lastSyncTimestamp is the time
\* at which the pass started.
C4_TimestampIsPassStart ==
    (StatefulPass /\ ~lastPass.fatal) =>
        /\ sync_state[lastPass.sync_type].present
        /\ sync_state[lastPass.sync_type].last_sync_timestamp = lastPass.sync_start

\* C5: after a pass that ends with a fatal error, the sync_state row of
\* its sync type has lastSyncSuccess = false and the result of the pass has
\* success = false.
C5_FatalRecordsFailure ==
    (StatefulPass /\ lastPass.fatal) =>
        /\ sync_state[lastPass.sync_type].present
        /\ ~sync_state[lastPass.sync_type].last_sync_success
        /\ ~lastPass.success

\* C11: a list or detail request that fails for good is fatal to the pass:
\* the result of the pass has success = false and the stored
\* lastSyncTimestamp (the high-water mark) is what it was before the pass.
C11_FetchFailureIsFatal ==
    (StatefulPass /\ lastPass.fetch_failed) =>
        LET now_row == sync_state[lastPass.sync_type]
            before == lastPass.row_before
        IN  /\ ~lastPass.success
            /\ now_row.present = before.present
            /\ now_row.present =>
                  now_row.last_sync_timestamp = before.last_sync_timestamp

\* The start of the window of the latest pass: what it sent as CreatedSince.
PassSince ==
    LET before == lastPass.row_before IN
    IF lastPass.sync_type = "cin7_orders"
    THEN before.last_sync_timestamp - SafetyBufferMinutes
    ELSE (IF before.present THEN before.last_sync_timestamp
          ELSE 0 - InitialLookbackMinutes) - OverlapMinutes

\* The orders the high-water mark of the latest pass vouches for: listed
\* by the source for the window when the pass started, not void or
\* cancelled, with a valid line.
OrdersDue ==
    {i \in OrderIds :
        /\ PassSince <= AllSummaries[i].created
        /\ AllSummaries[i].created <= lastPass.sync_start
        /\ Upper(AllSummaries[i].Status) \notin VoidStatuses
        /\ ValidSkusOf(i) # {}}

\* The latest pass reported success and wrote the high-water mark.
Advanced ==
    /\ StatefulPass
    /\ lastPass.success
    /\ sync_state[lastPass.sync_type].present
    /\ sync_state[lastPass.sync_type].last_sync_timestamp >= lastPass.sync_start

\* C26: the high-water mark never skips unstored orders: after a pass that
\* reports success and advances lastSyncTimestamp, every order that is not
\* void, that the source listed for the window of the pass and that has a
\* valid line has its lines in the store.
C26_HighWaterMarkCoversStore ==
    Advanced =>
        \A i \in OrdersDue : {r.sku : r \in OrderRows(orders, i)} = ValidSkusOf(i)

\* A pass met every order of its window and advanced the high-water mark.
C26_Witness ==
    /\ Advanced
    /\ Cardinality(OrdersDue) >= 2
    /\ \A i \in OrdersDue : {r.sku : r \in OrderRows(orders, i)} = ValidSkusOf(i)

(***************************************************************************)
(* The result specification: the same passes, lastPass observes the result *)
(* of each pass                                                            *)
(***************************************************************************)

SpecResult == InitResult /\ [][Next]_vars

\* C12: when the processing of an order's detail raised because of its
\* malformed payload, the pass ends successfully, the skipped counter of its
\* result grew for that order and no line of the order was stored.
C12_MalformedOrderSkipped ==
    (lastPass.kind # "none" /\ lastPass.malformed # 0) =>
        /\ lastPass.success
        /\ lastPass.malformed_counted
        /\ lastPass.malformed_stored = 0

\* A pass over a malformed order that conforms: SyncManager rolls the order
\* back, counts it as skipped and goes on.
C12_Witness ==
    /\ lastPass.kind = "SyncManager"
    /\ lastPass.malformed # 0
    /\ lastPass.success
    /\ lastPass.malformed_counted
    /\ lastPass.malformed_stored = 0

\* C13: the lines count in the result of a successful pass that is not a
\* dry run (lines_stored, lines_inserted) is the number of rows the pass
\* added to the orders table; a pass that added none reports 0.
C13_InsertedCountIsRowsAdded ==
    (lastPass.kind # "none" /\ lastPass.success /\ ~lastPass.dry_run) =>
        lastPass.reported = lastPass.added

\* A pass that added rows and reports their number.
C13_Witness ==
    /\ lastPass.kind # "none" /\ lastPass.success /\ ~lastPass.dry_run
    /\ lastPass.added > 0
    /\ lastPass.reported = lastPass.added

\* The latest pass ran UnifiedCin7Client.sync_recent_orders, the pass that
\* filters the listed orders on the preloaded existing_orders.
FilteringPass == lastPass.kind \in {"UnifiedRecent", "Hourly"}

\* C15: a pass requests the detail of no listed order that had a stored
\* row before the pass, and its skipped-existing counter counts those
\* orders: all of them when the cap lets the pass meet every listed order.
C15_SyncedOrdersCostNoDetail ==
    FilteringPass =>
        /\ lastPass.synced_detailed = 0
        /\ lastPass.skipped_existing <= lastPass.synced_listed
        /\ lastPass.cap >= NumOrders =>
               lastPass.skipped_existing = lastPass.synced_listed

\* A pass listed an order that was stored before it.
C15_Witness == FilteringPass /\ lastPass.synced_listed > 0

\* The latest pass was given max_orders.
CappedPass ==
    /\ lastPass.kind \in {"UnifiedRecent", "UnifiedWindow", "Hourly",
                          "Optimized", "RateLimited"}
    /\ lastPass.cap > 0

\* C20: a pass given max_orders requests the detail of at most max_orders
\* orders and stores lines of at most max_orders orders.
C20_CapBoundsPass ==
    CappedPass =>
        /\ lastPass.detailed <= lastPass.cap
        /\ lastPass.stored <= lastPass.cap

\* A pass whose list held more orders than its cap allows.
C20_Witness ==
    /\ CappedPass
    /\ lastPass.cap < NumOrders
    /\ lastPass.detailed = lastPass.cap

(***************************************************************************)
(* The lock specification: SyncService.hourly_sync run by several          *)
(* processes (cron triggers, /api/sync/trigger), one file operation or one *)
(* pass per step                                                           *)
(***************************************************************************)

NumProcs == 2
LockTickMinutes == 30
MaxLockClock == 90

\* SYNC_TIMEOUT_MINUTES = 45
TimeoutMinutes == 45

Procs == 1..NumProcs

Idle == [pc |-> "idle", result |-> "none", ran |-> FALSE]

InitLock ==
    /\ FnIdle /\ HttpIdle
    /\ clock = 0
    /\ orders = EmptyBag
    /\ products = {}
    /\ sync_state = [t \in SyncTypes |-> NoRow]
    /\ optimized = [existing_references |-> {}, sku_map |-> {}]
    /\ lastPass = NoPass
    /\ passes = 0
    /\ lock_file = NoFile
    /\ proc = [p \in Procs |-> Idle]

Goto(p, pc) == proc' = [proc EXCEPT ![p].pc = pc]

LockFrame == UNCHANGED <<syncVars, fnVars, httpVars>>

\* hourly_sync is called: "if not self.sync_enabled: return", else
\* create_lock_file begins.
Invoke(p) ==
    /\ proc[p].pc \in {"idle", "returned"}
    /\ \E sync_enabled \in BOOLEAN :
         proc' = [proc EXCEPT ![p] =
                     IF sync_enabled
                     THEN [pc |-> "check_exists", result |-> "none", ran |-> FALSE]
                     ELSE [pc |-> "returned", result |-> "disabled", ran |-> FALSE]]
    /\ UNCHANGED lock_file
    /\ LockFrame

\* is_sync_running: "if not os.path.exists(self.lock_file): return False"
CheckExists(p) ==
    /\ proc[p].pc = "check_exists"
    /\ Goto(p, IF lock_file.exists THEN "read_lock" ELSE "write_lock")
    /\ UNCHANGED lock_file
    /\ LockFrame

\* json.load and lock_data['started_at'] succeed: the file holds a lock
\* record. A file that holds none is [exists |-> TRUE].
Readable(file) == "started_at" \in DOMAIN file

\* A stale test that never finds a lock stale
IsStaleNever(file, now) == FALSE

\* (now - lock_time).total_seconds() > (self.timeout_minutes * 60)
IsStale(file, now) == now - file.started_at > TimeoutMinutes

\* is_sync_running: open and json.load, then the stale test. A lock that is
\* not stale makes create_lock_file return False and hourly_sync return
\* its failure.
ReadLock(p) ==
    /\ proc[p].pc = "read_lock"
    /\ IF ~lock_file.exists \/ ~Readable(lock_file)
       THEN Goto(p, "remove_invalid")
       ELSE IF IsStale(lock_file, clock)
       THEN Goto(p, "remove_stale")
       ELSE proc' = [proc EXCEPT ![p].pc = "returned", ![p].result = "refused"]
    /\ UNCHANGED lock_file
    /\ LockFrame

\* "os.remove(self.lock_file); return False"; when the file is gone the
\* FileNotFoundError lands in the except clause, which returns False too.
RemoveStale(p) ==
    /\ proc[p].pc = "remove_stale"
    /\ lock_file' = NoFile
    /\ Goto(p, "write_lock")
    /\ LockFrame

\* "except Exception: try: os.remove(self.lock_file) except: pass"
RemoveInvalid(p) ==
    /\ proc[p].pc = "remove_invalid"
    /\ lock_file' = NoFile
    /\ Goto(p, "write_lock")
    /\ LockFrame

\* create_lock_file: open(self.lock_file, 'w') and json.dump
WriteLock(p) ==
    /\ proc[p].pc = "write_lock"
    /\ lock_file' = [exists |-> TRUE, pid |-> p, started_at |-> clock]
    /\ Goto(p, "locked")
    /\ LockFrame

\* The try-block of hourly_sync: the pass and, when it succeeds,
\* update_last_sync_time.
LockedPass(p) ==
    /\ proc[p].pc = "locked"
    /\ \E fault \in Faults(1) :
         LET created_since == HourlyLastSyncTime(sync_state) - OverlapMinutes IN
         \E st \in {UnifiedSyncRecent(created_since, NumOrders, clock,
                                      orders, products, fault)} :
           LET success == ~(fault.db_fail \/ st.list_failed) IN
           /\ orders' = st.orders
           /\ products' = st.products
           /\ sync_state' = IF success THEN UpdateLastSyncTime(sync_state, clock)
                            ELSE sync_state
           /\ proc' = [proc EXCEPT ![p] =
                          [pc |-> "finally",
                           result |-> IF success THEN "ok" ELSE "failed",
                           ran |-> TRUE]]
    /\ UNCHANGED <<clock, optimized, lastPass, passes, lock_file, fnVars, httpVars>>

\* A finally clause that leaves the file
RemoveLockFileNever(p) ==
    /\ proc[p].pc = "finally"
    /\ UNCHANGED lock_file
    /\ Goto(p, "returned")
    /\ LockFrame

\* "finally: self.remove_lock_file()": removes the file if there is one
RemoveLockFile(p) ==
    /\ proc[p].pc = "finally"
    /\ lock_file' = NoFile
    /\ Goto(p, "returned")
    /\ LockFrame

TickLock ==
    /\ clock + LockTickMinutes <= MaxLockClock
    /\ clock' = clock + LockTickMinutes
    /\ UNCHANGED <<orders, products, sync_state, optimized, lastPass, passes,
                   lockVars, fnVars, httpVars>>

NextLock ==
    \/ TickLock
    \/ \E p \in Procs : Invoke(p)
    \/ \E p \in Procs : CheckExists(p)
    \/ \E p \in Procs : ReadLock(p)
    \/ \E p \in Procs : RemoveStale(p)
    \/ \E p \in Procs : RemoveInvalid(p)
    \/ \E p \in Procs : WriteLock(p)
    \/ \E p \in Procs : LockedPass(p)
    \/ \E p \in Procs : RemoveLockFile(p)

SpecLock == InitLock /\ [][NextLock]_vars

\* C6: no two invocations are both past lock acquisition with their pass
\* still to write; an invocation refused by a live lock has run no pass.
C6_MutualExclusion ==
    /\ \A p, q \in Procs :
          p # q => ~(proc[p].pc = "locked" /\ proc[q].pc = "locked")
    /\ \A p \in Procs : proc[p].result = "refused" => ~proc[p].ran

(***************************************************************************)
(* The lock specification started with the lock file a dead pass may have  *)
(* left behind, every invocation running on to its return                  *)
(***************************************************************************)

\* The start times of a lock left behind, against the clock at 0: older
\* than the timeout, as old as the timeout, fresh.
LeftoverStarts == {0 - 60, 0 - TimeoutMinutes, 0}

\* No file, the file of a pass that died (its pid, 0, is that of no process
\* that runs), a file that holds no lock record.
LeftoverFiles ==
    {NoFile, [exists |-> TRUE]}
        \cup {[exists |-> TRUE, pid |-> 0, started_at |-> s] :
                 s \in LeftoverStarts}

InitStale ==
    /\ FnIdle /\ HttpIdle
    /\ clock = 0
    /\ orders = EmptyBag
    /\ products = {}
    /\ sync_state = [t \in SyncTypes |-> NoRow]
    /\ optimized = [existing_references |-> {}, sku_map |-> {}]
    /\ lastPass = NoPass
    /\ passes = 0
    /\ lock_file \in LeftoverFiles
    /\ proc = [p \in Procs |-> Idle]

\* An invocation that began goes on until hourly_sync returns.
\* The LockedPass(p) step in which the try-block raises before it has
\* stored anything: the except clause logs the error and the finally clause
\* is next. It is enabled exactly when LockedPass(p) is, and every
\* LockedPass(p) step disables it, so weak fairness of it is weak fairness
\* of LockedPass(p).
LockedPassRaises(p) ==
    /\ proc[p].pc = "locked"
    /\ proc' = [proc EXCEPT ![p] =
                   [pc |-> "finally", result |-> "failed", ran |-> TRUE]]
    /\ UNCHANGED <<clock, orders, products, sync_state, optimized, lastPass,
                   passes, lock_file, fnVars, httpVars>>

HourlySyncStep(p) ==
    \/ CheckExists(p) \/ ReadLock(p) \/ RemoveStale(p) \/ RemoveInvalid(p)
    \/ WriteLock(p) \/ LockedPassRaises(p) \/ RemoveLockFile(p)

RunsOn(p) == WF_vars(HourlySyncStep(p))

SpecLockFair ==
    InitStale /\ [][NextLock]_vars /\ \A p \in Procs : RunsOn(p)

\* An invocation that returned after it acquired the lock has left no lock
\* file of its own.
ReleasedOnReturn ==
    \A p \in Procs :
        (proc[p].pc = "returned" /\ proc[p].ran) =>
            ~(lock_file.exists /\ Readable(lock_file) /\ lock_file.pid = p)

\* The step in which an invocation returns without the lock (sync disabled,
\* or refused by a live lock) leaves the lock file as it is.
RefusedKeepsLock ==
    \A p \in Procs :
        (proc'[p] # proc[p] /\ proc'[p].result \in {"disabled", "refused"}) =>
            /\ lock_file' = lock_file
            /\ ~proc'[p].ran

LiveLock ==
    /\ lock_file.exists
    /\ Readable(lock_file)
    /\ clock - lock_file.started_at <= TimeoutMinutes

\* What is_sync_running does with the file it reads: a live lock makes the
\* invocation return its failure without a pass and without touching the
\* file; a stale or unreadable file is to be removed.
ReadDecides ==
    \A p \in Procs :
        (proc[p].pc = "read_lock" /\ proc'[p].pc # "read_lock") =>
            IF LiveLock
            THEN /\ proc'[p].pc = "returned"
                 /\ proc'[p].result = "refused"
                 /\ ~proc'[p].ran
                 /\ lock_file' = lock_file
            ELSE proc'[p].pc \in {"remove_stale", "remove_invalid"}

EnvValues == {None, << >>, <<"k">>}

Components == {"SyncManager", "UnifiedCin7Client", "Cin7Client"}

\* HTTP requests a behaviour issues at most.
MaxStartupRequests == 8

InitStartup ==
    /\ FnIdle
    /\ clock = 0
    /\ orders = EmptyBag
    /\ products = {}
    /\ sync_state = [t \in SyncTypes |-> NoRow]
    /\ optimized = << >>
    /\ lastPass = NoPass
    /\ passes = 0
    /\ lock_file = NoFile
    /\ proc = << >>
    /\ http \in {[env |-> [account_id |-> a, api_key |-> k],
                  objects |-> [c \in Components |-> "none"],
                  service |-> "none", requests |-> 0] :
                    a \in EnvValues, k \in EnvValues}

\* "if not self.account_id or not self.api_key: raise ValueError"
CredentialsMissing(env) == ~Truthy(env.account_id) \/ ~Truthy(env.api_key)

StartupFrame == UNCHANGED <<clock, optimized, lastPass, passes, proc, fnVars>>

\* SyncManager.init_sync_tables: INSERT OR IGNORE INTO sync_state
\* ('cin7_orders', seven days ago)
InitSyncTables(state, now) ==
    IF state["cin7_orders"].present THEN state
    ELSE [state EXCEPT !["cin7_orders"] =
             [present |-> TRUE,
              last_sync_timestamp |-> now - InitialLookbackMinutes,
              last_sync_success |-> TRUE]]

\* sync_manager = SyncManager() (stock_app.py): the ValueError is raised
\* before init_sync_tables.
NewSyncManager ==
    /\ http.objects["SyncManager"] = "none"
    /\ IF CredentialsMissing(http.env)
       THEN /\ http' = [http EXCEPT !.objects["SyncManager"] = "raised"]
            /\ UNCHANGED sync_state
       ELSE /\ http' = [http EXCEPT !.objects["SyncManager"] = "constructed"]
            /\ sync_state' = InitSyncTables(sync_state, clock)
    /\ UNCHANGED <<orders, products, lock_file>>
    /\ StartupFrame

\* sync_manager.sync_recent_orders(max_pages=1) of a constructed SyncManager
StartupSyncManagerPass ==
    /\ http.objects["SyncManager"] = "constructed"
    /\ LET last_sync == GetLastSyncTime(sync_state, "cin7_orders", clock)
           list == SaleListCreatedSince(last_sync - SafetyBufferMinutes, clock)
       IN
       \E st \in {SyncManagerPages(1, 1, list, PassStart(orders, products),
                                   FALSE, NoFault)} :
         \E issued \in {st.pages + Cardinality(st.detailed)} :
           /\ http.requests + issued <= MaxStartupRequests
           /\ http' = [http EXCEPT !.requests = @ + issued]
           /\ orders' = st.orders
           /\ products' = st.products
           /\ sync_state' = UpdateSyncState(sync_state, "cin7_orders", clock, TRUE)
    /\ UNCHANGED lock_file
    /\ StartupFrame

\* cin7_client = UnifiedCin7Client() (unified_stock_app.py, daily_sync.py)
NewUnifiedCin7Client ==
    /\ http.objects["UnifiedCin7Client"] = "none"
    /\ http' = [http EXCEPT !.objects["UnifiedCin7Client"] =
                   IF CredentialsMissing(http.env) THEN "raised"
                   ELSE "constructed"]
    /\ UNCHANGED <<orders, products, sync_state, lock_file>>
    /\ StartupFrame

\* cin7_client = Cin7Client(account_id=os.environ.get(...), ...) (app.py):
\* __init__ stores what it is given and sets the session headers.
NewCin7Client ==
    /\ http.objects["Cin7Client"] = "none"
    /\ http' = [http EXCEPT !.objects["Cin7Client"] = "constructed"]
    /\ UNCHANGED <<orders, products, sync_state, lock_file>>
    /\ StartupFrame

\* POST /api/sync/orders (app.py): cin7_client.fetch_orders issues a
\* request through _make_request.
Cin7FetchOrders ==
    /\ http.objects["Cin7Client"] = "constructed"
    /\ http.requests < MaxStartupRequests
    /\ http' = [http EXCEPT !.requests = @ + 1]
    /\ UNCHANGED <<orders, products, sync_state, lock_file>>
    /\ StartupFrame

\* service = SyncService() (sync_service.py main): __init__ reads the sync
\* configuration, not the credentials.
NewSyncService ==
    /\ http.service = "none"
    /\ http' = [http EXCEPT !.service = "constructed"]
    /\ UNCHANGED <<orders, products, sync_state, lock_file>>
    /\ StartupFrame

\* hourly_sync: create_lock_file
ServiceCreateLock ==
    /\ http.service = "constructed"
    /\ ~lock_file.exists
    /\ lock_file' = [exists |-> TRUE, pid |-> 1, started_at |-> clock]
    /\ http' = [http EXCEPT !.service = "locked"]
    /\ UNCHANGED <<orders, products, sync_state>>
    /\ StartupFrame

\* hourly_sync: self.cin7_client = UnifiedCin7Client() inside the try; its
\* ValueError is caught by "except Exception" and returned as a result.
ServiceNewClient ==
    /\ http.service = "locked"
    /\ http' = [http EXCEPT !.service =
                   IF CredentialsMissing(http.env) THEN "failed" ELSE "client"]
    /\ UNCHANGED <<orders, products, sync_state, lock_file>>
    /\ StartupFrame

\* hourly_sync: the pass and update_last_sync_time
ServicePass ==
    /\ http.service = "client"
    /\ LET created_since == HourlyLastSyncTime(sync_state) - OverlapMinutes IN
       \E st \in {UnifiedSyncRecent(created_since, NumOrders, clock,
                                    orders, products, NoFault)} :
         \E issued \in {st.pages + Cardinality(st.detailed)} :
           /\ http.requests + issued <= MaxStartupRequests
           /\ http' = [http EXCEPT !.requests = @ + issued,
                                   !.service = "passed"]
           /\ orders' = st.orders
           /\ products' = st.products
           /\ sync_state' = UpdateLastSyncTime(sync_state, clock)
    /\ UNCHANGED lock_file
    /\ StartupFrame

\* hourly_sync: "finally: self.remove_lock_file()"
ServiceFinally ==
    /\ http.service \in {"failed", "passed"}
    /\ lock_file' = NoFile
    /\ http' = [http EXCEPT !.service = "returned"]
    /\ UNCHANGED <<orders, products, sync_state>>
    /\ StartupFrame

NextStartup ==
    \/ NewSyncManager
    \/ StartupSyncManagerPass
    \/ NewUnifiedCin7Client
    \/ NewCin7Client
    \/ Cin7FetchOrders
    \/ NewSyncService
    \/ ServiceCreateLock
    \/ ServiceNewClient
    \/ ServicePass
    \/ ServiceFinally

SpecStartup == InitStartup /\ [][NextStartup]_vars

\* C14: while the account id or the API key is missing, no HTTP request is
\* issued, no lock file exists, no row is in the store and no client object
\* has come out of its constructor.
C14_MissingCredentialsFatal ==
    CredentialsMissing(http.env) =>
        /\ http.requests = 0
        /\ ~lock_file.exists
        /\ orders = EmptyBag
        /\ \A t \in SyncTypes : ~sync_state[t].present
        /\ \A c \in Components : http.objects[c] # "constructed"

\* A constructor refused to start without credentials.
C14_Witness ==
    /\ CredentialsMissing(http.env)
    /\ http.objects["SyncManager"] = "raised"

(***************************************************************************)
(* The gateway specification: _make_request of one client instance, one    *)
(* step per wait, per request with its response. Time is in tenths of a    *)
(* second.                                                                 *)
(***************************************************************************)

Gateways == {"Optimized", "RateLimited", "SyncManager", "Simple", "Cin7Client"}

Kinds == {"list", "detail"}

\* What the server answers: a status code, or nothing before the timeout.
Statuses == {"200", "429", "503", "timeout"}

\* The Retry-After header of a 429, in seconds; 0 stands for no header.
RetryAfterValues == {0, 1}

\* Idle time between two calls.
Gaps == {0, 20}

\* Calls of a behaviour and requests of a call.
MaxCalls == 2
MaxRequests == 4

\* time.time() when the instance is constructed (last_request_time = 0)
StartTime == 1000

\* int(response.headers.get('Retry-After', 60)) and time.sleep(60)
DefaultRetryAfter == 600

\* int(response.headers.get('Retry-After', 5)) of Cin7Client
Cin7DefaultRetryAfter == 50

\* time.sleep(10) after a 503
ServiceUnavailableSleep == 100

\* retry_count: int = 3
RetryCount == 3

\* timeout=30 of requests.get
RequestTimeout == 300

\* The gateways that call _wait_for_rate_limit in _make_request
HasLimiter(g) == g \in {"Optimized", "RateLimited", "Simple"}

\* list_interval / min_interval and detail_interval of the limiter; for
\* SyncManager the sleeps of its order loop (1.8 s) and page loop (1.5 s).
Interval(g, kind) ==
    CASE g = "Optimized" -> IF kind = "detail" THEN 18 ELSE 15
      [] g = "RateLimited" -> IF kind = "detail" THEN 18 ELSE 12
      [] g = "Simple" -> 10
      [] g = "SyncManager" -> IF kind = "detail" THEN 18 ELSE 15
      [] OTHER -> 0

\* 2 ** attempt, in seconds
RECURSIVE Pow2(_)
Pow2(n) == IF n = 0 THEN 1 ELSE 2 * Pow2(n - 1)

Backoff(attempt) == 10 * Pow2(attempt)

Cin7RetriesAlways(attempt) == TRUE

\* "if attempt < retry_count - 1: time.sleep(2 ** attempt); continue",
\* else "raise"
Cin7Retries(attempt) == attempt < RetryCount - 1

InitGateway ==
    /\ SyncIdle /\ LockIdle /\ FnIdle
    /\ http \in {[gateway |-> g, now |-> StartTime, last_request_time |-> 0,
                  pc |-> "idle", kind |-> "list", attempt |-> 0,
                  calls |-> 0, call_requests |-> 0, n503 |-> 0,
                  last_status |-> "none", retry_after |-> 0, slept |-> 0,
                  outcome |-> "none", requests |-> << >>] : g \in Gateways}

GatewayFrame == UNCHANGED <<syncVars, lockVars, fnVars>>

\* _make_request(endpoint, params, is_detail_call) is called
GatewayCall ==
    /\ http.pc = "idle"
    /\ http.calls < MaxCalls
    /\ \E kind \in Kinds, gap \in Gaps :
         http' = [http EXCEPT
                    !.now = @ + gap, !.kind = kind,
                    !.pc = IF HasLimiter(http.gateway) THEN "wait" ELSE "send",
                    !.attempt = 0, !.calls = @ + 1, !.call_requests = 0,
                    !.n503 = 0, !.last_status = "none", !.retry_after = 0,
                    !.slept = 0, !.outcome = "none"]
    /\ GatewayFrame

\* _wait_for_rate_limit: sleep what is missing of the interval.
\* OptimizedCin7Sync and RateLimitedCin7Sync stamp last_request_time here,
\* SimpleCin7Client after the response.
WaitForRateLimit ==
    /\ http.pc = "wait"
    /\ LET elapsed == http.now - http.last_request_time
           required_interval == Interval(http.gateway, http.kind)
           woke == IF elapsed < required_interval
                   THEN http.now + (required_interval - elapsed)
                   ELSE http.now
       IN  http' = [http EXCEPT
                      !.now = woke,
                      !.last_request_time =
                          IF http.gateway = "Simple" THEN @ ELSE woke,
                      !.pc = "send"]
    /\ GatewayFrame

\* return response.json()
Return(h) == [h EXCEPT !.pc = "idle", !.outcome = "returned"]

\* raise
Raise(h) == [h EXCEPT !.pc = "idle", !.outcome = "raised"]

\* time.sleep(seconds), then the request is issued again: through
\* _make_request (which waits for the limiter) or in place
SleepAndRetry(h, tenths, pc) ==
    [h EXCEPT !.now = @ + tenths, !.slept = tenths, !.pc = pc]

HeaderOr(retry_after, default) ==
    IF retry_after = 0 THEN default ELSE 10 * retry_after

\* What each _make_request does with the response
Respond(h, status, retry_after) ==
    CASE h.gateway = "Optimized" ->
           IF status = "200" THEN Return(h)
           ELSE IF status = "429"
           THEN SleepAndRetry(h, HeaderOr(retry_after, DefaultRetryAfter), "wait")
           ELSE Raise(h)
      [] h.gateway = "RateLimited" ->
           IF status = "200" THEN Return(h)
           ELSE IF status = "429"
           THEN SleepAndRetry(h, HeaderOr(retry_after, DefaultRetryAfter), "wait")
           ELSE IF status = "503"
           THEN SleepAndRetry(h, ServiceUnavailableSleep, "wait")
           ELSE Raise(h)
      [] h.gateway = "SyncManager" ->
           IF status = "200" THEN Return(h)
           ELSE IF status = "429"
           THEN SleepAndRetry(h, DefaultRetryAfter, "send")
           ELSE Raise(h)
      [] h.gateway = "Simple" ->
           IF status = "timeout" THEN Raise(h)
           ELSE
             LET h1 == [h EXCEPT !.last_request_time = h.now] IN
             IF status = "200" THEN Return(h1)
             ELSE IF status = "429"
             THEN SleepAndRetry(h1, DefaultRetryAfter, "wait")
             ELSE SleepAndRetry(h1, ServiceUnavailableSleep, "wait")
      [] h.gateway = "Cin7Client" ->
           IF status = "200" THEN Return(h)
           ELSE IF status = "429"
           THEN \* sleep, "continue": the attempt is spent
                LET h1 == SleepAndRetry(
                              [h EXCEPT !.attempt = @ + 1],
                              HeaderOr(retry_after, Cin7DefaultRetryAfter), "send")
                IN  IF h1.attempt = RetryCount THEN Raise(h1) ELSE h1
           ELSE \* Timeout or RequestException (raise_for_status)
                IF Cin7Retries(h.attempt)
                THEN SleepAndRetry([h EXCEPT !.attempt = @ + 1],
                                   Backoff(h.attempt), "send")
                ELSE Raise([h EXCEPT !.slept = 0])

\* requests.get(...) and the handling of its response
SendRequest ==
    /\ http.pc = "send"
    /\ http.call_requests < MaxRequests
    /\ \E status \in Statuses, retry_after \in RetryAfterValues :
         /\ status # "429" => retry_after = 0
         /\ LET request == [at |-> http.now, kind |-> http.kind,
                            waited |-> HasLimiter(http.gateway)]
                sent == [http EXCEPT
                           !.call_requests = @ + 1,
                           !.n503 = IF status = "503" THEN @ + 1 ELSE @,
                           !.last_status = status,
                           !.retry_after = retry_after, !.slept = 0,
                           !.now = IF status = "timeout"
                                   THEN @ + RequestTimeout ELSE @,
                           !.requests = IF @ = << >> THEN <<request>>
                                        ELSE <<@[Len(@)], request>>]
            IN  http' = Respond(sent, status, retry_after)
    /\ GatewayFrame

NextGateway == GatewayCall \/ WaitForRateLimit \/ SendRequest

SpecGateway == InitGateway /\ [][NextGateway]_vars

\* Cin7Client alone, which has no limiter. A running call goes on: a sleep
\* ends, a request gets its response or its timeout.
InitCin7Client == InitGateway /\ http.gateway = "Cin7Client"

NextCin7Client == GatewayCall \/ SendRequest

SpecCin7ClientFair ==
    /\ InitCin7Client /\ [][NextCin7Client]_vars
    /\ WF_vars(SendRequest)

\* The gateways whose requests are to be spaced by the limiter.
SpacedGateway ==
    http.gateway \in {"Optimized", "RateLimited", "Simple", "SyncManager"}

\* C16: every request of a gateway is issued after the rate-limiter wait
\* and at least interval(kind) after the previous request of the instance,
\* re-issued requests included.
C16_RateLimitHolds ==
    SpacedGateway =>
        /\ \A i \in DOMAIN http.requests : http.requests[i].waited
        /\ Len(http.requests) = 2 =>
              http.requests[2].at - http.requests[1].at
                  >= Interval(http.gateway, http.requests[2].kind)

\* A request was issued right at the end of the interval the limiter
\* enforced.
C16_Witness ==
    /\ http.gateway = "Optimized"
    /\ Len(http.requests) = 2
    /\ http.requests[2].waited
    /\ http.requests[2].at - http.requests[1].at
           = Interval("Optimized", http.requests[2].kind)

\* C17: after a 429 the call is still running (nothing was returned or
\* raised to the caller) and the gateway slept the Retry-After value, or
\* 60 s when the header was absent.
C17_TooManyRequestsNeverSurfaced ==
    (/\ http.gateway \in {"Optimized", "RateLimited", "Cin7Client"}
     /\ http.last_status = "429") =>
        /\ http.pc # "idle"
        /\ http.slept = HeaderOr(http.retry_after, DefaultRetryAfter)

\* A 429 was answered by sleeping 60 s and going on with the call.
C17_Witness ==
    /\ http.gateway = "Optimized"
    /\ http.last_status = "429"
    /\ http.pc = "wait"
    /\ http.slept = DefaultRetryAfter

\* C18: a call meets at most two 503 responses: after the first the gateway
\* sleeps the fixed interval and goes on, after the second the call has
\* failed.
C18_ServiceUnavailableRetriedOnce ==
    (/\ http.gateway \in {"RateLimited", "Simple"}
     /\ http.last_status = "503") =>
        /\ http.n503 <= 2
        /\ http.n503 = 1 =>
              http.pc # "idle" /\ http.slept = ServiceUnavailableSleep
        /\ http.n503 = 2 => http.outcome = "raised"

\* A first 503 was answered by sleeping 10 s and going on with the call.
C18_Witness ==
    /\ http.gateway = "RateLimited"
    /\ http.last_status = "503"
    /\ http.n503 = 1
    /\ http.pc = "wait"
    /\ http.slept = ServiceUnavailableSleep

\* A call of Cin7Client._make_request: at most retry_count requests; it
\* raises only after the last of them failed; before the retry of a
\* network error it slept 2^attempt seconds.
Cin7CallBounded ==
    http.gateway = "Cin7Client" =>
        /\ http.call_requests <= RetryCount
        /\ http.outcome = "raised" =>
              http.call_requests = RetryCount /\ http.last_status # "200"
        /\ (http.pc = "send" /\ http.last_status \in {"503", "timeout"}) =>
              http.slept = 10 * 2^(http.attempt - 1)

Absent == <<"Absent">>

\* dict.get(key, default)
DictGet(value, default) == IF value = Absent THEN default ELSE value

\* The products of a /Products page: ProductCode and Name as Cin7 sends them.
ProductCodes == {skuA, << >>}
ProductNames == {Absent, None, << >>, nameA}
MaxProducts == 2

ProductPayloads == [ProductCode : ProductCodes, Name : ProductNames]

\* Cin7Client.fetch_products: "Transform to consistent format"
FetchProducts(payloads) ==
    [i \in 1..Len(payloads) |->
        [sku |-> DictGet(payloads[i].ProductCode, << >>),
         description |-> DictGet(payloads[i].Name, << >>)]]

\* The existing-product branch of store_product:
\* product.description = product_data.get('description', product.description)
UpdateExisting(product, product_data) ==
    [product EXCEPT !.description = DictGet(product_data.description, @)]

\* StockCalculator.store_product
StoreProduct(table, product_data) ==
    LET sku == DictGet(product_data.sku, << >>) IN
    IF ~Truthy(sku) THEN [stored |-> FALSE, table |-> table]
    ELSE IF \E p \in table : p.sku = sku
    THEN LET product == CHOOSE p \in table : p.sku = sku IN
         [stored |-> TRUE,
          table |-> (table \ {product})
                      \cup {UpdateExisting(product, product_data)}]
    ELSE [stored |-> TRUE,
          table |-> table \cup
                      {[sku |-> sku,
                        description |-> DictGet(product_data.description, None)]}]

\* "for product in products: if stock_calculator.store_product(product)"
RECURSIVE StoreProducts(_, _, _)
StoreProducts(table, fetched, stored_count) ==
    IF fetched = << >> THEN [table |-> table, stored_count |-> stored_count]
    ELSE LET r == StoreProduct(table, Head(fetched)) IN
         StoreProducts(r.table, Tail(fetched),
                       IF r.stored THEN stored_count + 1 ELSE stored_count)

\* POST /api/sync/products. fnResult keeps the table as it was before.
SyncProducts ==
    \E payloads \in UNION {[1..n -> ProductPayloads] : n \in 1..MaxProducts} :
      \E r \in {StoreProducts(products, FetchProducts(payloads), 0)} :
        /\ products' = r.table
        /\ fnName' = "sync_products"
        /\ fnArgs' = FetchProducts(payloads)
        /\ fnResult' = [returned |-> TRUE, stored_count |-> r.stored_count,
                        before |-> products]
        /\ UNCHANGED <<clock, orders, sync_state, optimized, lastPass, passes,
                       lockVars, httpVars>>

MaxProductPasses == 1

InitProducts ==
    /\ LockIdle /\ FnIdle /\ HttpIdle
    /\ clock = 0
    /\ orders = EmptyBag
    /\ products = {}
    /\ sync_state = [t \in SyncTypes |->
                        IF t = "cin7_orders"
                        THEN [present |-> TRUE,
                              last_sync_timestamp |-> 0 - InitialLookbackMinutes,
                              last_sync_success |-> TRUE]
                        ELSE NoRow]
    /\ optimized = [existing_references |-> {}, sku_map |-> {}]
    /\ lastPass = NoPassObserving("tables")
    /\ passes = MaxProductPasses

NextProducts ==
    \/ SyncProducts
    \/ UnifiedSyncRecentOrders

SpecProducts == InitProducts /\ [][NextProducts]_vars

\* C21: once a sku has a non-blank stored description, no later product
\* upsert or sync pass leaves the sku with a blank or missing description:
\* an upsert that carries a blank description does not change the stored one.
C21_UpsertKeepsDescription ==
    [][\A p \in products :
          Truthy(p.description) =>
              \E q \in products' : q.sku = p.sku /\ Truthy(q.description)]_vars

\* A product upsert carried a blank description for a sku whose stored
\* description was not blank.
C21_Witness ==
    /\ fnName = "sync_products"
    /\ \E i \in DOMAIN fnArgs :
          /\ ~Truthy(fnArgs[i].description)
          /\ \E p \in fnResult.before :
                p.sku = fnArgs[i].sku /\ Truthy(p.description)

(***************************************************************************)
(* The dry-run specification: the passes that take dry_run, run in one     *)
(* process each; lastPass observes the call and the caches before the pass *)
(***************************************************************************)

InitDryRun ==
    /\ LockIdle /\ FnIdle /\ HttpIdle
    /\ clock = 0
    /\ orders = EmptyBag
    /\ products = {}
    /\ sync_state = [t \in SyncTypes |->
                        IF t = "cin7_orders"
                        THEN [present |-> TRUE,
                              last_sync_timestamp |-> 0 - InitialLookbackMinutes,
                              last_sync_success |-> TRUE]
                        ELSE NoRow]
    /\ optimized = [existing_references |-> {}, sku_map |-> {}]
    /\ lastPass = NoPassObserving("dry_run")
    /\ passes = MaxPasses

NextDryRun ==
    \/ Tick
    \/ SyncManagerSyncRecentOrders
    \/ OptimizedSyncWindow
    \/ RateLimitedSyncDateWindow

SpecDryRun == InitDryRun /\ [][NextDryRun]_vars

\* The list entries of the sale ids a pass was given.
SummariesOf(listed) == [k \in DOMAIN listed |-> AllSummaries[IdOfSale(listed[k])]]

\* The orders table after the real run of a call on the tables as they
\* are, when the process has the given caches and no request fails.
RealRun(call, cache) ==
    LET list == SummariesOf(call.listed)
        start == PassStart(orders, products)
    IN  CASE call.kind = "Optimized" ->
               OptimizedBatches(
                   OptimizedFetchAll(1, list, << >>, call.cap, NoFault).all_orders,
                   [st |-> start, cache |-> cache], FALSE, NoFault).st.orders
          [] call.kind = "RateLimited" ->
               RateLimitedOrders(
                   IF call.cap # 0
                   THEN SubSeq(list, 1, Min(call.cap, Len(list))) ELSE list,
                   start, FALSE, NoFault).orders
          [] OTHER ->
               SyncManagerPages(1, call.cap, list, start, FALSE, NoFault).orders

\* C24: a dry run inserts no row in orders or products and does not write
\* sync_state; and the real run of the same call that follows a dry run in
\* the same process leaves the orders table as its run without the dry run
\* would: as the run that starts from the same tables with the caches the
\* process had before the dry run.
C24_DryRunHasNoEffect ==
    [][passes' # passes =>
         /\ lastPass'.call.dry_run =>
               orders' = orders /\ products' = products
               /\ sync_state' = sync_state
         /\ lastPass'.after_dry =>
               orders' = RealRun(lastPass'.call, lastPass.cache_before)]_vars

\* The real run of a call followed its dry run and stored rows.
C24_Witness ==
    /\ lastPass.kind # "none"
    /\ lastPass.after_dry
    /\ orders # EmptyBag

(***************************************************************************)
(* The overlap specification: SyncManager.sync_recent_orders run by        *)
(* several requests of /sync/incremental at a time; the pass takes no      *)
(* lock. One step reads the clock and the high-water mark, a later step    *)
(* does the requests and the writes.                                       *)
(***************************************************************************)

MaxOverlapPasses == 3

NotRunning == [pc |-> "idle"]

InitOverlap ==
    /\ FnIdle /\ HttpIdle
    /\ clock = 0
    /\ orders = EmptyBag
    /\ products = {}
    /\ sync_state = [t \in SyncTypes |->
                        IF t = "cin7_orders"
                        THEN [present |-> TRUE,
                              last_sync_timestamp |-> 0 - InitialLookbackMinutes,
                              last_sync_success |-> TRUE]
                        ELSE NoRow]
    /\ optimized = [existing_references |-> {}, sku_map |-> {}]
    /\ lastPass = NoPass
    /\ passes = MaxOverlapPasses
    /\ lock_file = NoFile
    /\ proc = [p \in Procs |-> NotRunning]

\* sync_start = datetime.now(); last_sync = self.get_last_sync_time();
\* safe_last_sync = last_sync - timedelta(minutes=5)
BeginSyncRecentOrders(p) ==
    /\ CountPass
    /\ proc[p].pc \in {"idle", "returned"}
    /\ \E max_pages \in {1, MaxPagesArg}, dry_run \in BOOLEAN :
         proc' = [proc EXCEPT ![p] =
                     [pc |-> "running", sync_start |-> clock,
                      safe_last_sync |->
                          GetLastSyncTime(sync_state, "cin7_orders", clock)
                              - SafetyBufferMinutes,
                      max_pages |-> max_pages, dry_run |-> dry_run]]
    /\ UNCHANGED <<clock, orders, products, sync_state, optimized, lastPass,
                   lock_file, fnVars, httpVars>>

\* The rest of the pass: the preload, the page loop and update_sync_state
\* with the sync_start read at the beginning.
EndSyncRecentOrders(p) ==
    /\ proc[p].pc = "running"
    /\ \E fault \in Faults(PagesOfAll) :
         LET my == proc[p]
             list == SaleListCreatedSince(my.safe_last_sync, clock)
             start == PassStart(orders, products)
         IN
         \E st \in {IF fault.db_fail THEN start
                    ELSE SyncManagerPages(1, my.max_pages, list, start,
                                          my.dry_run, fault)} :
           /\ orders' = st.orders
           /\ products' = st.products
           /\ sync_state' = IF ~my.dry_run
                            THEN UpdateSyncState(sync_state, "cin7_orders",
                                                 my.sync_start, ~fault.db_fail)
                            ELSE sync_state
           /\ proc' = [proc EXCEPT ![p] =
                          [pc |-> "returned", sync_start |-> my.sync_start,
                           wrote |-> ~my.dry_run]]
    /\ UNCHANGED <<clock, optimized, lastPass, passes, lock_file, fnVars,
                   httpVars>>

NextOverlap ==
    \/ Tick
    \/ \E p \in Procs : BeginSyncRecentOrders(p)
    \/ \E p \in Procs : EndSyncRecentOrders(p)

SpecOverlap == InitOverlap /\ [][NextOverlap]_vars

\* C27: the high-water mark is monotonic: each write of lastSyncTimestamp
\* stores a value greater than or equal to the value it replaces, whatever
\* the interleaving of the passes on the sync type.
C27_HighWaterMarkMonotonic ==
    [][\A t \in SyncTypes :
          (sync_state[t].present /\ sync_state'[t].present) =>
              sync_state'[t].last_sync_timestamp
                  >= sync_state[t].last_sync_timestamp]_vars

\* Two passes that started at different times have both written the
\* high-water mark, and it is the later start.
C27_Witness ==
    /\ \A p \in Procs : proc[p].pc = "returned" /\ proc[p].wrote
    /\ proc[1].sync_start < proc[2].sync_start
    /\ sync_state["cin7_orders"].last_sync_timestamp = proc[2].sync_start

(***************************************************************************)
(* The repeated-sku specification: each pass stores the lines of one order *)
(* whose header lines or pick lines repeat a sku, on empty tables          *)
(***************************************************************************)

\* Raw lines: the same sku with two quantities and two locations, and
\* another sku.
RepeatLines ==
    { RawLine(skuA, 1, CNTVIC, nameA),
      RawLine(skuA, 2, WCLQLD, nameA),
      RawLine(skuB, 1, << >>, nameB) }

RepeatDetails ==
    { [Order |-> [Lines |-> ls],
       Fulfilments |-> [k \in 1..Len(ps) |-> Fulfilment(ps[k])],
       Location |-> << >>] :
         ls \in SeqsUpTo(RepeatLines, MaxLines),
         ps \in SeqsUpTo(SeqsUpTo(RepeatLines, MaxLines), MaxFulfilments) }

InitRepeat ==
    /\ LockIdle /\ HttpIdle
    /\ clock = 0
    /\ orders = EmptyBag
    /\ products = {}
    /\ sync_state = [t \in SyncTypes |-> NoRow]
    /\ optimized = [existing_references |-> {}, sku_map |-> {}]
    /\ lastPass = NoPass
    /\ passes = 0
    /\ fnName = "none"
    /\ fnArgs \in {[order |-> SampleOrder, detail |-> d] : d \in RepeatDetails}
    /\ fnResult = NoResult

\* What a pass extracted of the order, line by line: sku, quantity and the
\* warehouse it gives the line.
LinesOfRows(rows) ==
    [i \in DOMAIN rows |->
        [sku |-> rows[i].sku, quantity |-> rows[i].quantity,
         warehouse |-> rows[i].warehouse]]

RepeatFrame == UNCHANGED <<clock, sync_state, lastPass, passes, lockVars,
                           fnArgs, httpVars>>

\* The batch of one order in UnifiedCin7Client.sync_recent_orders
UnifiedRecentStore ==
    /\ fnName = "none"
    /\ fnName' = "UnifiedRecent"
    /\ LET rows == BatchRowsUnified(fnArgs.order, LinesToProcess(fnArgs.detail)) IN
       \E st \in {InsertBatchOrIgnore(rows, PassStart(orders, products))} :
         /\ orders' = st.orders
         /\ products' = st.products
         /\ fnResult' = [returned |-> TRUE, lines |-> LinesOfRows(rows)]
    /\ UNCHANGED optimized
    /\ RepeatFrame

\* The line loop of one order in UnifiedCin7Client.sync_date_window
UnifiedWindowStore ==
    /\ fnName = "none"
    /\ fnName' = "UnifiedWindow"
    /\ LET lines == LinesToProcess(fnArgs.detail)
           rows == BatchRowsUnified(fnArgs.order, lines)
       IN
       \E st \in {StoreRowsChecked(rows, DescriptionsOf(lines),
                                   PassStart(orders, products))} :
         /\ orders' = st.orders
         /\ products' = st.products
         /\ fnResult' = [returned |-> TRUE, lines |-> LinesOfRows(rows)]
    /\ UNCHANGED optimized
    /\ RepeatFrame

\* SyncManager._process_order_lines of one order
SyncManagerStore ==
    /\ fnName = "none"
    /\ fnName' = "SyncManager"
    /\ \E st \in {ProcessOrderLines(fnArgs.order, fnArgs.detail,
                                    PassStart(orders, products), FALSE)} :
         /\ orders' = st.orders
         /\ products' = st.products
         /\ fnResult' =
              [returned |-> TRUE,
               lines |-> [i \in DOMAIN fnArgs.detail.Order.Lines |->
                            [sku |-> Strip(fnArgs.detail.Order.Lines[i].SKU),
                             quantity |-> fnArgs.detail.Order.Lines[i].Quantity,
                             warehouse |-> MapWarehouseLocation(fnArgs.detail)]]]
    /\ UNCHANGED optimized
    /\ RepeatFrame

\* OptimizedCin7Sync._process_order_batch of a batch of one order
OptimizedStore ==
    /\ fnName = "none"
    /\ fnName' = "Optimized"
    /\ LET lines == ExtractLinesOptimized(fnArgs.order, fnArgs.detail,
                                          fnArgs.detail.Order.Lines)
           chk == OptimizedLinesToStore(lines, optimized, << >>)
       IN
       \E acc \in {OptimizedQueueLines(chk.lines_to_store,
                       [st |-> PassStart(orders, products), cache |-> chk.cache,
                        new_products |-> << >>, new_orders |-> << >>])} :
         \E st \in {IF acc.new_products # << >> \/ acc.new_orders # << >>
                    THEN BatchInsertData(acc.st, acc.new_products, acc.new_orders)
                    ELSE acc.st} :
           /\ orders' = st.orders
           /\ products' = st.products
           /\ optimized' = acc.cache
           /\ fnResult' = [returned |-> TRUE, lines |-> LinesOfRows(lines)]
    /\ RepeatFrame

\* The line loop of one order in RateLimitedCin7Sync.sync_date_window
RateLimitedStore ==
    /\ fnName = "none"
    /\ fnName' = "RateLimited"
    /\ LET lines == ExtractOrderLines(fnArgs.order, fnArgs.detail,
                                      fnArgs.detail.Order.Lines)
       IN
       \E st \in {StoreOrderLines(lines, PassStart(orders, products), FALSE)} :
         /\ orders' = st.orders
         /\ products' = st.products
         /\ fnResult' = [returned |-> TRUE, lines |-> LinesOfRows(lines)]
    /\ UNCHANGED optimized
    /\ RepeatFrame

NextRepeat ==
    \/ UnifiedRecentStore
    \/ UnifiedWindowStore
    \/ SyncManagerStore
    \/ OptimizedStore
    \/ RateLimitedStore

SpecRepeat == InitRepeat /\ [][NextRepeat]_vars

\* The first of the lines that has the sku.
FirstOf(lines, sku) ==
    lines[CHOOSE i \in DOMAIN lines :
             lines[i].sku = sku /\ \A j \in 1..(i - 1) : lines[j].sku # sku]

\* C28: first line wins for a repeated sku: of the lines extracted from one
\* order exactly one row is stored for each sku, with the quantity and the
\* warehouse of the first line that has the sku; the later lines with the
\* sku add no row and change nothing.
C28_FirstLineWins ==
    fnResult.returned =>
        LET lines == fnResult.lines
            rows == BagToSet(orders)
        IN  /\ \A r \in rows : CopiesIn(r, orders) = 1
            /\ \A r1, r2 \in rows : r1.sku = r2.sku => r1 = r2
            /\ {r.sku : r \in rows} = {lines[i].sku : i \in DOMAIN lines}
            /\ \A r \in rows :
                  /\ r.quantity = FirstOf(lines, r.sku).quantity
                  /\ r.warehouse = FirstOf(lines, r.sku).warehouse

\* The lines of the order had the same sku twice, picked from two
\* locations in two quantities, and one row of the sku is stored.
C28_Witness ==
    /\ fnResult.returned
    /\ fnName = "UnifiedRecent"
    /\ \E i, j \in DOMAIN fnResult.lines :
          /\ i < j
          /\ fnResult.lines[i].sku = fnResult.lines[j].sku
          /\ fnResult.lines[i].quantity # fnResult.lines[j].quantity
          /\ fnResult.lines[i].warehouse # fnResult.lines[j].warehouse
    /\ orders # EmptyBag

====
